---- MODULE Spec2Model ----
(***************************************************************************)
(* A model of the RSML compiler of hyprui (hyprui-rsml-compiler/src/lib.rs):*)
(* the Tokenizer, the recursive-descent Parser and the CodeGenerator, and   *)
(* the rsml! pipeline that runs them; and of three parts of the hyprui      *)
(* runtime: the hooks (src/hooks.rs), the input manager                     *)
(* (src/input/winit_impl.rs) and the focus manager (src/focus_system.rs).   *)
(*                                                                          *)
(* Text is a sequence of characters (one-character strings).  Generated     *)
(* code is a sequence of fragments: the literal pieces of the format!       *)
(* templates and the characters copied from the input; the generated        *)
(* string is their concatenation.                                           *)
(***************************************************************************)
EXTENDS Naturals, Integers, Sequences, FiniteSets, TLC

VARIABLES
    input,          \* Tokenizer.input: the markup text
    position,       \* Tokenizer.position (0-based index into input)
    current_token,  \* Parser.current_token
    tokens,         \* the tokens next_token has returned to a direct caller
    dom,            \* the result of Parser::parse, or the tree given to generate
    rust_code,      \* the result of CodeGenerator::generate
    printed_from,   \* the tree the markup text was printed from (a round-trip run)
    pc,             \* where the run is
    hooks,          \* the thread-locals of hooks.rs, and what the hook calls returned
    input_manager,  \* the WinitInputManager of create_window
    focus_manager   \* GLOBAL_FOCUS_MANAGER

rsml_vars == <<input, position, current_token, tokens, dom, rust_code, printed_from, pc>>

runtime_vars == <<hooks, input_manager, focus_manager>>

vars == <<input, position, current_token, tokens, dom, rust_code, printed_from, pc,
          hooks, input_manager, focus_manager>>

(***************************************************************************)
(* Characters                                                              *)
(***************************************************************************)
None == "None"

(***************************************************************************)
(* Maps (HashMap) are functions; their keys are the function's domain      *)
(***************************************************************************)
EmptyMap == <<>>

MapInsert(m, k, v) == [x \in DOMAIN m \cup {k} |-> IF x = k THEN v ELSE m[x]]

MapRetain(m, keep) == [x \in DOMAIN m \cap keep |-> m[x]]

\* the thread-locals of hooks.rs when the thread starts; nothing returned yet
HooksNew ==
    [HOOK_PATH |-> <<>>,
     HOOK_INDEX |-> 0,
     HOOK_STATES |-> EmptyMap,
     HOOK_VISITED_STATES |-> {},
     setters |-> {},        \* the keys of the setters of this frame and the last one
     frame_calls |-> <<>>,  \* the hook calls of this frame: key, hook, argument, and
                            \* <<the value returned>>, or <<>> when the call panicked
     dropped |-> {},        \* the keys whose states the last end_component removed
     latest |-> EmptyMap,   \* per key called by use_state in every frame since its first
                            \* call: the last value given to its setter, or the first initial
     panicked |-> FALSE]

\* WinitInputManager::new(); the text and mouse-position fields are left out
WinitInputManagerNew ==
    [mouse_buttons_current |-> EmptyMap,
     mouse_buttons_previous |-> EmptyMap,
     mouse_buttons_pressed |-> EmptyMap,
     keys_current |-> EmptyMap,
     keys_previous |-> EmptyMap,
     ime_editing |-> FALSE,
     events |-> <<>>,       \* the mouse-button events delivered since the last frame
     key_events |-> 0]      \* the key and IME events delivered since the last frame

\* FocusManager::new()
FocusManagerNew ==
    [focus_nodes |-> EmptyMap,
     current |-> None,
     first |-> None,
     last |-> None,
     inserted |-> <<>>,     \* the ids of the nodes, in the order add_node inserted them
     at |-> "callback",     \* where the render callback of create_window is
     panicked |-> FALSE]

RuntimeNew ==
    /\ hooks = HooksNew
    /\ input_manager = WinitInputManagerNew
    /\ focus_manager = FocusManagerNew

Whitespace == {" ", "\n"}

Uppercase == {"M", "H", "W"}

Lowercase == {"a", "b", "c", "d", "e", "f", "h", "i", "k", "l", "n", "o", "p", "r", "s",
              "t", "w", "x", "y", "z"}

Digits == {"1", "8"}

Quotes == {"\"", "'"}

IsWhitespace(ch) == ch \in Whitespace

IsAlphabetic(ch) == ch \in Lowercase \cup Uppercase

IsAlphanumeric(ch) == IsAlphabetic(ch) \/ ch \in Digits

IsUppercase(ch) == ch \in Uppercase

(***************************************************************************)
(* Tokens                                                                  *)
(***************************************************************************)
Tok(type, text) == [type |-> type, text |-> text]

OpenTag == Tok("OpenTag", <<>>)

CloseTag == Tok("CloseTag", <<>>)

SelfCloseTag == Tok("SelfCloseTag", <<>>)

EndOpenTag == Tok("EndOpenTag", <<>>)

Equals == Tok("Equals", <<>>)

Eof == Tok("Eof", <<>>)

Identifier(text) == Tok("Identifier", text)

StringLiteral(text) == Tok("StringLiteral", text)

Expression(text) == Tok("Expression", text)

(***************************************************************************)
(* Tokenizer                                                               *)
(***************************************************************************)
\* self.input.get(p).copied(): the character at 0-based index p, None past the end
CharAt(text, p) == IF p < Len(text) THEN text[p + 1] ELSE None

\* a variant that looks at the current character
Peek_Current(text, p) == CharAt(text, p)

\* Tokenizer::peek at position p
Peek(text, p) == CharAt(text, p + 1)

RECURSIVE SkipWhitespace(_, _)
\* Tokenizer::skip_whitespace: the position of the first non-whitespace character
SkipWhitespace(text, p) ==
    IF CharAt(text, p) # None /\ IsWhitespace(CharAt(text, p))
    THEN SkipWhitespace(text, p + 1)
    ELSE p

\* the characters read_identifier accepts
IsIdentifierChar(ch) == IsAlphanumeric(ch) \/ ch = "_" \/ ch = "-"

RECURSIVE ReadIdentifierLoop(_, _, _)
ReadIdentifierLoop(text, p, result) ==
    IF CharAt(text, p) # None /\ IsIdentifierChar(CharAt(text, p))
    THEN ReadIdentifierLoop(text, p + 1, Append(result, CharAt(text, p)))
    ELSE [text |-> result, position |-> p]

\* Tokenizer::read_identifier
ReadIdentifier(text, p) == ReadIdentifierLoop(text, p, <<>>)

RECURSIVE ReadStringLiteralLoop(_, _, _, _, _)
ReadStringLiteralLoop(text, p, quote_char, result, escaped) ==
    LET ch == CharAt(text, p) IN
    IF ch = None THEN [text |-> result, position |-> p]
    ELSE IF escaped
         THEN ReadStringLiteralLoop(text, p + 1, quote_char, Append(result, ch), FALSE)
    ELSE IF ch = "\\"
         THEN ReadStringLiteralLoop(text, p + 1, quote_char, Append(result, ch), TRUE)
    ELSE IF ch = quote_char
         THEN [text |-> result, position |-> p + 1]
    ELSE ReadStringLiteralLoop(text, p + 1, quote_char, Append(result, ch), FALSE)

\* a variant that drops the backslashes from the value
ReadStringLiteral_Unescaped(text, p) ==
    LET r == ReadStringLiteralLoop(text, p + 1, CharAt(text, p), <<>>, FALSE)
    IN [text |-> SelectSeq(r.text, LAMBDA c : c # "\\"), position |-> r.position]

\* a variant that gives up the characters of a literal that is never closed
ReadStringLiteral_ClosedOnly(text, p) ==
    LET r == ReadStringLiteralLoop(text, p + 1, CharAt(text, p), <<>>, FALSE)
    IN IF CharAt(text, r.position - 1) = CharAt(text, p) /\ r.position - 1 > p
       THEN r
       ELSE [text |-> <<>>, position |-> r.position]

\* a variant that advances once more after the loop
ReadStringLiteral_AdvancesAfter(text, p) ==
    LET r == ReadStringLiteralLoop(text, p + 1, CharAt(text, p), <<>>, FALSE)
    IN [text |-> r.text, position |-> r.position + 1]

\* Tokenizer::read_string_literal, called on the opening quote
ReadStringLiteral(text, p) ==
    ReadStringLiteralLoop(text, p + 1, CharAt(text, p), <<>>, FALSE)

RECURSIVE ReadExpressionLoop(_, _)
\* the while loop of read_expression; s holds its local variables
ReadExpressionLoop(text, s) ==
    LET ch == CharAt(text, s.position)
        push == [s EXCEPT !.result = Append(@, ch), !.position = @ + 1]
    IN
    IF ch = None THEN s
    ELSE IF s.escaped
         THEN ReadExpressionLoop(text, [push EXCEPT !.escaped = FALSE])
    ELSE IF ch = "\\" /\ s.in_string
         THEN ReadExpressionLoop(text, [push EXCEPT !.escaped = TRUE])
    ELSE IF ch \in Quotes /\ ~s.in_string
         THEN ReadExpressionLoop(text, [push EXCEPT !.in_string = TRUE, !.string_char = ch])
    ELSE IF ch = s.string_char /\ s.in_string
         THEN ReadExpressionLoop(text, [push EXCEPT !.in_string = FALSE])
    ELSE IF ~s.in_string
         THEN IF ch = "{"
              THEN ReadExpressionLoop(text, [push EXCEPT !.brace_count = @ + 1])
              ELSE IF ch = "}"
                   THEN IF s.brace_count - 1 = 0
                        THEN [s EXCEPT !.brace_count = 0, !.position = @ + 1]
                        ELSE ReadExpressionLoop(text, [push EXCEPT !.brace_count = @ - 1])
                   ELSE ReadExpressionLoop(text, push)
    ELSE ReadExpressionLoop(text, push)

\* Tokenizer::read_expression, called on the opening brace
ReadExpression(text, p) ==
    LET s == ReadExpressionLoop(text,
                 [position |-> p + 1, result |-> <<>>, brace_count |-> 1,
                  in_string |-> FALSE, string_char |-> "\"", escaped |-> FALSE])
    IN [text |-> s.result, position |-> s.position, brace_count |-> s.brace_count]

RECURSIVE NextToken(_, _)
\* Tokenizer::next_token from position p: the token and the position after it
NextToken(text, p) ==
    LET ch == CharAt(text, p) IN
    IF ch = None THEN [token |-> Eof, position |-> p]
    ELSE IF IsWhitespace(ch) THEN NextToken(text, SkipWhitespace(text, p))
    ELSE IF ch = "<"
         THEN IF Peek(text, p) = "/"
              THEN [token |-> EndOpenTag, position |-> p + 2]
              ELSE [token |-> OpenTag, position |-> p + 1]
    ELSE IF ch = "/" /\ Peek(text, p) = ">"
         THEN [token |-> SelfCloseTag, position |-> p + 2]
    ELSE IF ch = ">" THEN [token |-> CloseTag, position |-> p + 1]
    ELSE IF ch = "=" THEN [token |-> Equals, position |-> p + 1]
    ELSE IF ch \in Quotes
         THEN LET r == ReadStringLiteral(text, p)
              IN [token |-> StringLiteral(r.text), position |-> r.position]
    ELSE IF ch = "{"
         THEN LET r == ReadExpression(text, p)
              IN [token |-> Expression(r.text), position |-> r.position]
    ELSE IF IsAlphabetic(ch) \/ ch = "_"
         THEN LET r == ReadIdentifier(text, p)
              IN [token |-> Identifier(r.text), position |-> r.position]
    ELSE NextToken(text, p + 1)

(***************************************************************************)
(* DOM                                                                     *)
(***************************************************************************)
\* Node::Element(Element {tag_name, attributes, children, self_closing})
NodeElement(tag_name, attributes, children, self_closing) ==
    [kind |-> "Element", tag_name |-> tag_name, attributes |-> attributes,
     children |-> children, self_closing |-> self_closing, text |-> <<>>]

\* Node::Text(text)
NodeText(text) ==
    [kind |-> "Text", tag_name |-> <<>>, attributes |-> <<>>,
     children |-> <<>>, self_closing |-> FALSE, text |-> text]

\* Node::Expression(expr)
NodeExpression(expr) ==
    [kind |-> "Expression", tag_name |-> <<>>, attributes |-> <<>>,
     children |-> <<>>, self_closing |-> FALSE, text |-> expr]

\* Attribute {name, value}; value is None, Some(String(s)) or Some(Expression(e))
Attribute(name, value) == [name |-> name, value |-> value]

ValueNone == [kind |-> "None", text |-> <<>>]

ValueString(s) == [kind |-> "String", text |-> s]

ValueExpression(e) == [kind |-> "Expression", text |-> e]

(***************************************************************************)
(* Parser.  A parser state is its tokenizer's position and current_token.  *)
(***************************************************************************)
\* Parser::new
ParserNew(text) ==
    LET r == NextToken(text, 0)
    IN [position |-> r.position, current_token |-> r.token]

\* Parser::advance
Advance(text, P) ==
    LET r == NextToken(text, P.position)
    IN [position |-> r.position, current_token |-> r.token]

\* Debug output of a token
DebugToken(token) ==
    IF token.type \in {"Identifier", "StringLiteral", "Expression"}
    THEN <<token.type, "(\"">> \o token.text \o <<"\")">>
    ELSE <<token.type>>

\* Parser::expect_token: compares the discriminants
ExpectToken(text, P, expected) ==
    IF P.current_token.type = expected.type
    THEN [ok |-> TRUE, P |-> Advance(text, P), err |-> <<>>]
    ELSE [ok |-> FALSE, P |-> P,
          err |-> <<"Expected ">> \o DebugToken(expected) \o <<", found ">>
                      \o DebugToken(P.current_token)]

RECURSIVE ParseAttributesLoop(_, _, _)
\* a variant that takes the text of any token after = for a string value
ParseAttributeValue_AnyToken(text, P2, attributes, attr_name) ==
    IF P2.current_token.type = "Expression"
    THEN ParseAttributesLoop(text, Advance(text, P2),
             Append(attributes, Attribute(attr_name, ValueExpression(P2.current_token.text))))
    ELSE ParseAttributesLoop(text, Advance(text, P2),
             Append(attributes, Attribute(attr_name, ValueString(P2.current_token.text))))

\* the value of an attribute, P2 being the parser after the = sign
ParseAttributeValue(text, P2, attributes, attr_name) ==
    IF P2.current_token.type = "StringLiteral"
    THEN ParseAttributesLoop(text, Advance(text, P2),
             Append(attributes, Attribute(attr_name, ValueString(P2.current_token.text))))
    ELSE IF P2.current_token.type = "Expression"
    THEN ParseAttributesLoop(text, Advance(text, P2),
             Append(attributes, Attribute(attr_name, ValueExpression(P2.current_token.text))))
    ELSE [ok |-> FALSE, attributes |-> <<>>, P |-> P2,
          err |-> <<"Expected string literal or expression after =">>]

\* the rest of an attribute, P1 being the parser after its name
ParseAttributeRest(text, P1, attributes, attr_name) ==
    IF P1.current_token.type = "Equals"
    THEN ParseAttributeValue(text, Advance(text, P1), attributes, attr_name)
    ELSE ParseAttributesLoop(text, P1, Append(attributes, Attribute(attr_name, ValueNone)))

\* the while loop of parse_attributes
ParseAttributesLoop(text, P, attributes) ==
    IF P.current_token.type = "Identifier"
    THEN ParseAttributeRest(text, Advance(text, P), attributes, P.current_token.text)
    ELSE [ok |-> TRUE, attributes |-> attributes, P |-> P, err |-> <<>>]

\* Parser::parse_attributes
ParseAttributes(text, P) == ParseAttributesLoop(text, P, <<>>)

\* a variant that accepts any closing name
ClosingNameMismatch_Never(closing_name, tag_name) == FALSE

\* the comparison of the closing tag's name with the opening tag's
ClosingNameMismatch(closing_name, tag_name) == closing_name # tag_name

ParseFail(P, err) == [ok |-> FALSE, node |-> NodeText(<<>>), P |-> P, err |-> err]

RECURSIVE ParseElement(_, _)
RECURSIVE ParseChildrenLoop(_, _, _, _)
\* a variant that drops a nested element that failed and goes on with the children
ParseChildElement_Recovers(text, r, tag_name, children) ==
    IF r.ok
    THEN ParseChildrenLoop(text, r.P, tag_name, Append(children, r.node))
    ELSE ParseChildrenLoop(text, r.P, tag_name, children)

\* a nested element in the child loop: r is what parse_element returned
ParseChildElement(text, r, tag_name, children) ==
    IF r.ok
    THEN ParseChildrenLoop(text, r.P, tag_name, Append(children, r.node))
    ELSE [ok |-> FALSE, children |-> <<>>, P |-> r.P, err |-> r.err]

\* the child loop of parse_element: until the current token is EndOpenTag
ParseChildrenLoop(text, P, tag_name, children) ==
    IF P.current_token.type = "EndOpenTag"
    THEN [ok |-> TRUE, children |-> children, P |-> P, err |-> <<>>]
    ELSE IF P.current_token.type = "OpenTag"
         THEN ParseChildElement(text, ParseElement(text, P), tag_name, children)
    ELSE IF P.current_token.type = "Expression"
         THEN ParseChildrenLoop(text, Advance(text, P), tag_name,
                                Append(children, NodeExpression(P.current_token.text)))
    ELSE IF P.current_token.type = "Identifier"
         THEN ParseChildrenLoop(text, Advance(text, P), tag_name,
                                Append(children, NodeText(P.current_token.text)))
    ELSE IF P.current_token.type = "Eof"
         THEN [ok |-> FALSE, children |-> <<>>, P |-> P,
               err |-> <<"Unexpected EOF while parsing <">> \o tag_name \o <<">">>]
    ELSE ParseChildrenLoop(text, Advance(text, P), tag_name, children)

\* the closing tag's name, e1 being the result of expecting </
ParseClosingName(text, e1, tag_name) ==
    IF ~e1.ok THEN e1
    ELSE IF e1.P.current_token.type = "Identifier"
         THEN IF ClosingNameMismatch(e1.P.current_token.text, tag_name)
              THEN [ok |-> FALSE, P |-> e1.P,
                    err |-> <<"Mismatched closing tag: expected </">> \o tag_name
                                \o <<">, found </">> \o e1.P.current_token.text \o <<">">>]
              ELSE ExpectToken(text, Advance(text, e1.P), CloseTag)
    ELSE [ok |-> FALSE, P |-> e1.P, err |-> <<"Expected tag name in closing tag">>]

\* the closing tag of parse_element: </tagname>
ParseClosingTag(text, P, tag_name) ==
    ParseClosingName(text, ExpectToken(text, P, EndOpenTag), tag_name)

\* the end of parse_element, z being the result of the closing tag
ParseElementEnd(z, tag_name, attributes, children) ==
    IF ~z.ok THEN ParseFail(z.P, z.err)
    ELSE [ok |-> TRUE, P |-> z.P, err |-> <<>>,
          node |-> NodeElement(tag_name, attributes, children, FALSE)]

\* a variant that takes a failed child loop for the end of the element
ParseElementClose_ImplicitEnd(text, c, tag_name, attributes) ==
    IF ~c.ok
    THEN [ok |-> TRUE, P |-> c.P, err |-> <<>>,
          node |-> NodeElement(tag_name, attributes, <<>>, FALSE)]
    ELSE ParseElementEnd(ParseClosingTag(text, c.P, tag_name), tag_name, attributes, c.children)

\* parse_element after the child loop returned c
ParseElementClose(text, c, tag_name, attributes) ==
    IF ~c.ok THEN ParseFail(c.P, c.err)
    ELSE ParseElementEnd(ParseClosingTag(text, c.P, tag_name), tag_name, attributes, c.children)

\* parse_element after the > of the opening tag was expected, with result e1
ParseElementChildren(text, e1, tag_name, attributes) ==
    IF ~e1.ok THEN ParseFail(e1.P, e1.err)
    ELSE ParseElementClose(text, ParseChildrenLoop(text, e1.P, tag_name, <<>>),
                           tag_name, attributes)

\* parse_element after parse_attributes returned a
ParseElementBody(text, a, tag_name) ==
    IF ~a.ok THEN ParseFail(a.P, a.err)
    ELSE IF a.P.current_token.type = "SelfCloseTag"
         THEN [ok |-> TRUE, P |-> Advance(text, a.P), err |-> <<>>,
               node |-> NodeElement(tag_name, a.attributes, <<>>, TRUE)]
    ELSE ParseElementChildren(text, ExpectToken(text, a.P, CloseTag), tag_name, a.attributes)

\* parse_element after < was expected, with result e0
ParseElementTag(text, e0) ==
    IF ~e0.ok THEN ParseFail(e0.P, e0.err)
    ELSE IF e0.P.current_token.type # "Identifier"
         THEN ParseFail(e0.P, <<"Expected tag name after <">>)
    ELSE ParseElementBody(text, ParseAttributes(text, Advance(text, e0.P)),
                          e0.P.current_token.text)

\* Parser::parse_element
ParseElement(text, P) == ParseElementTag(text, ExpectToken(text, P, OpenTag))

\* a variant that rejects tokens after the root element
Parse_ExpectsEof(text, P) ==
    IF ParseElement(text, P).ok /\ ParseElement(text, P).P.current_token # Eof
    THEN ParseFail(ParseElement(text, P).P, <<"Unexpected token after the root element">>)
    ELSE ParseElement(text, P)

\* Parser::parse
Parse(text, P) == ParseElement(text, P)

(***************************************************************************)
(* Code generator.  A result is the generated code, or a panic.            *)
(***************************************************************************)
Str_container == <<"c", "o", "n", "t", "a", "i", "n", "e", "r">>

Str_text == <<"t", "e", "x", "t">>

Str_clickable == <<"c", "l", "i", "c", "k", "a", "b", "l", "e">>

Str_key == <<"k", "e", "y">>

Str_center == <<"c", "e", "n", "t", "e", "r">>

Str_h_expand == <<"h", "_", "e", "x", "p", "a", "n", "d">>

Str_w_expand == <<"w", "_", "e", "x", "p", "a", "n", "d">>

Str_w_fit == <<"w", "_", "f", "i", "t">>

Generated(code) == [panic |-> FALSE, code |-> code]

Panic == [panic |-> TRUE, code |-> <<>>]

RECURSIVE TrimStart(_)
TrimStart(text) ==
    IF text # <<>> /\ IsWhitespace(Head(text)) THEN TrimStart(Tail(text)) ELSE text

RECURSIVE TrimEnd(_)
TrimEnd(text) ==
    IF text # <<>> /\ IsWhitespace(text[Len(text)])
    THEN TrimEnd(SubSeq(text, 1, Len(text) - 1))
    ELSE text

\* str::trim
Trim(text) == TrimEnd(TrimStart(text))

RECURSIVE Repeat(_, _)
\* str::repeat
Repeat(text, n) == IF n = 0 THEN <<>> ELSE text \o Repeat(text, n - 1)

RECURSIVE Join(_, _)
\* [String]::join
Join(parts, sep) ==
    IF parts = <<>> THEN <<>>
    ELSE IF Len(parts) = 1 THEN parts[1]
    ELSE parts[1] \o sep \o Join(Tail(parts), sep)

\* a variant that knows center alone
IsBooleanMethod_CenterOnly(method_name) == method_name = Str_center

\* CodeGenerator::is_boolean_method
IsBooleanMethod(method_name) ==
    method_name \in {Str_h_expand, Str_w_expand, Str_w_fit, Str_center}

\* a variant that skips no child
IsWhitespaceOnlyText_Never(child) == FALSE

\* the whitespace-only text nodes the child loops skip
IsWhitespaceOnlyText(child) == child.kind = "Text" /\ Trim(child.text) = <<>>

\* whether generate_with_box wraps the code in Box::new
WrapsInBox(node, wrap_in_box) == wrap_in_box /\ node.kind = "Element"

\* the element type of a built-in element
ElementType(tag_name) ==
    IF tag_name = Str_container THEN <<"hyprui::Container">>
    ELSE IF tag_name = Str_text THEN <<"hyprui::Text">>
    ELSE IF tag_name = Str_clickable THEN <<"hyprui::Clickable">>
    ELSE tag_name

\* the first attribute named key, as an optional value: find(..).and_then(..)
RECURSIVE FindKeyValue(_, _)
FindKeyValue(attributes, i) ==
    IF i > Len(attributes) THEN ValueNone
    ELSE IF attributes[i].name = Str_key THEN attributes[i].value
    ELSE FindKeyValue(attributes, i + 1)

\* the key argument of Clickable::new
ClickableKey(element) ==
    LET val == FindKeyValue(element.attributes, 1) IN
    IF val.kind = "String" THEN <<"\"">> \o val.text \o <<"\"">>
    ELSE IF val.kind = "Expression" THEN val.text
    ELSE <<"\"default_key\"">>

\* a variant that chains the key attribute of a clickable element too
IsSkippedAttribute_Never(attr, tag_name) == FALSE

\* the attributes the method chain skips: they are handled in constructors
IsSkippedAttribute(attr, tag_name) == attr.name = Str_key /\ tag_name = Str_clickable

\* one attribute turned into a method call on the code so far
AttributeCall(code, attr) ==
    IF attr.value.kind = "String"
    THEN code \o <<".">> \o attr.name \o <<"(\"">> \o attr.value.text \o <<"\")">>
    ELSE IF attr.value.kind = "Expression"
         THEN IF IsBooleanMethod(attr.name)
              THEN <<"if ">> \o attr.value.text \o <<" { ">> \o code \o <<".">> \o attr.name
                       \o <<"() } else { ">> \o code \o <<" }">>
              ELSE code \o <<".">> \o attr.name \o <<"(">> \o attr.value.text \o <<")">>
    ELSE code \o <<".">> \o attr.name \o <<"()">>

RECURSIVE AttributeCalls(_, _, _, _)
\* the loop over element.attributes, from attribute i on
AttributeCalls(code, attributes, i, tag_name) ==
    IF i > Len(attributes) THEN code
    ELSE IF IsSkippedAttribute(attributes[i], tag_name)
         THEN AttributeCalls(code, attributes, i + 1, tag_name)
    ELSE AttributeCalls(AttributeCall(code, attributes[i]), attributes, i + 1, tag_name)

\* a variant that lets an element child of a text element through
TextFormatArg_ElementAllowed(child) ==
    IF child.kind = "Text" THEN Generated(<<"\"">> \o Trim(child.text) \o <<"\"">>)
    ELSE IF child.kind = "Expression" THEN Generated(child.text)
    ELSE Generated(<<>>)

\* a variant that rejects an expression child of a text element as well
TextFormatArg_TextOnly(child) ==
    IF child.kind = "Text" THEN Generated(<<"\"">> \o Trim(child.text) \o <<"\"">>)
    ELSE Panic

\* one child of a text element as a format! argument
TextFormatArg(child) ==
    IF child.kind = "Text" THEN Generated(<<"\"">> \o Trim(child.text) \o <<"\"">>)
    ELSE IF child.kind = "Expression" THEN Generated(child.text)
    ELSE Panic

RECURSIVE TextFormatArgs(_, _, _)
\* the map over the children of a text element; parts collects the arguments
TextFormatArgs(children, i, parts) ==
    IF i > Len(children) THEN [panic |-> FALSE, parts |-> parts]
    ELSE LET r == TextFormatArg(children[i]) IN
         IF r.panic THEN [panic |-> TRUE, parts |-> <<>>]
         ELSE TextFormatArgs(children, i + 1, Append(parts, r.code))

\* the constructor call of a text element
TextConstructor(element) ==
    LET args == TextFormatArgs(element.children, 1, <<>>) IN
    IF args.panic THEN Panic
    ELSE LET fmt_args == Join(args.parts, <<", ">>)
             format_string == Trim(Repeat(<<" ", "{", "}", " ">>, Len(element.children)))
             format_call == <<"format!(\"">> \o format_string \o <<"\", ">> \o fmt_args \o <<")">>
         IN Generated(ElementType(element.tag_name) \o <<"::new(">> \o format_call \o <<")">>)

\* one property assignment of generate_component
PropAssignment(attr) ==
    IF attr.value.kind = "String"
    THEN <<"        props.">> \o attr.name \o <<" = \"">> \o attr.value.text \o <<"\";">>
    ELSE IF attr.value.kind = "Expression"
         THEN <<"        props.">> \o attr.name \o <<" = ">> \o attr.value.text \o <<";">>
    ELSE <<"        props.">> \o attr.name \o <<" = true;">>

\* a variant that always writes the props block
ComponentNew_AlwaysBlock(tag_name, props_assignments) ==
    LET props_block == <<"{\n        let mut props = Default::default();\n">>
                           \o Join(props_assignments, <<"\n">>)
                           \o <<"\n        props\n    }">>
    IN <<"hyprui::Component::new(">> \o tag_name \o <<", ">> \o props_block \o <<")">>

\* the props argument of Component::new, from the list of assignments
ComponentNew(tag_name, props_assignments) ==
    IF props_assignments = <<>>
    THEN <<"hyprui::Component::new(">> \o tag_name \o <<", Default::default())">>
    ELSE LET props_block == <<"{\n        let mut props = Default::default();\n">>
                                \o Join(props_assignments, <<"\n">>)
                                \o <<"\n        props\n    }">>
         IN <<"hyprui::Component::new(">> \o tag_name \o <<", ">> \o props_block \o <<")">>

RECURSIVE GenerateWithBox(_, _)
RECURSIVE GenerateElementInner(_)
RECURSIVE GenerateComponent(_)
RECURSIVE ChildCalls(_, _, _)
RECURSIVE ChildrenCode(_, _, _)

\* the constructor call of a clickable element
ClickableConstructor(element) ==
    LET child == IF element.children = <<>>
                 THEN Generated(<<"hyprui::Text::new(\"\")">>)
                 ELSE GenerateWithBox(element.children[1], FALSE)
    IN IF child.panic THEN Panic
       ELSE Generated(ElementType(element.tag_name) \o <<"::new(">> \o ClickableKey(element)
                          \o <<", ">> \o child.code \o <<")">>)

\* the constructor call generate_element_inner starts from
Constructor(element) ==
    IF element.tag_name = Str_clickable THEN ClickableConstructor(element)
    ELSE IF element.tag_name = Str_text THEN TextConstructor(element)
    ELSE Generated(ElementType(element.tag_name) \o <<"::new()">>)

\* the loop adding .child() calls, from child i on
ChildCalls(code, children, i) ==
    IF i > Len(children) THEN Generated(code)
    ELSE IF IsWhitespaceOnlyText(children[i]) THEN ChildCalls(code, children, i + 1)
    ELSE LET child_code == GenerateWithBox(children[i], FALSE) IN
         IF child_code.panic THEN Panic
         ELSE ChildCalls(code \o <<".child(">> \o child_code.code \o <<")">>, children, i + 1)

\* whether generate_element_inner adds the children as .child() calls
AddsChildCalls(tag_name) == tag_name # Str_clickable /\ tag_name # Str_text

\* CodeGenerator::generate_element_inner
GenerateElementInner(element) ==
    IF element.tag_name = <<>> THEN Panic
    ELSE IF IsUppercase(Head(element.tag_name)) THEN GenerateComponent(element)
    ELSE LET c == Constructor(element) IN
         IF c.panic THEN Panic
         ELSE LET code == AttributeCalls(c.code, element.attributes, 1, element.tag_name)
              IN IF AddsChildCalls(element.tag_name)
                 THEN ChildCalls(code, element.children, 1)
                 ELSE Generated(code)

\* the loop of generate_component collecting children_code, from child i on
ChildrenCode(children, i, children_code) ==
    IF i > Len(children) THEN [panic |-> FALSE, parts |-> children_code]
    ELSE IF IsWhitespaceOnlyText(children[i]) THEN ChildrenCode(children, i + 1, children_code)
    ELSE LET r == GenerateWithBox(children[i], TRUE) IN
         IF r.panic THEN [panic |-> TRUE, parts |-> <<>>]
         ELSE ChildrenCode(children, i + 1, Append(children_code, r.code))

\* CodeGenerator::generate_component
GenerateComponent(element) ==
    LET attr_props == [i \in 1..Len(element.attributes) |-> PropAssignment(element.attributes[i])]
        cc == ChildrenCode(element.children, 1, <<>>)
    IN IF cc.panic THEN Panic
       ELSE LET props_assignments ==
                    IF cc.parts # <<>>
                    THEN Append(attr_props,
                                <<"        props.children = vec![">>
                                    \o Join(cc.parts, <<", ">>) \o <<"];">>)
                    ELSE attr_props
            IN Generated(ComponentNew(element.tag_name, props_assignments))

\* CodeGenerator::generate_with_box
GenerateWithBox(node, wrap_in_box) ==
    LET r == IF node.kind = "Element" THEN GenerateElementInner(node)
             ELSE IF node.kind = "Text"
                  THEN Generated(<<"hyprui::Text::new(\"">> \o node.text \o <<"\")">>)
             ELSE Generated(node.text)
    IN IF r.panic THEN Panic
       ELSE IF WrapsInBox(node, wrap_in_box)
            THEN Generated(<<"Box::new(">> \o r.code \o <<")">>)
            ELSE r

\* CodeGenerator::generate
Generate(node) == GenerateWithBox(node, TRUE)

(***************************************************************************)
(* Bounded sets of inputs                                                  *)
(***************************************************************************)
\* all sequences over S of length at most n
RECURSIVE SeqsUpTo(_, _)
SeqsUpTo(S, n) ==
    IF n = 0 THEN {<<>>}
    ELSE LET shorter == SeqsUpTo(S, n - 1)
         IN shorter \cup {Append(s, x) : s \in {t \in shorter : Len(t) = n - 1}, x \in S}

MaxRawLen == 3

MaxExprLen == 4

MaxEofCalls == 2

\* characters of the raw tokenizer inputs: one of every class next_token tells apart
RawChars == {"<", "/", ">", "=", "\"", "'", "\\", "{", "}", "a", "-", "1", " "}

\* characters of the expression texts E of the inputs {E}
ExprChars == {"{", "}", "\"", "'", "\\", "a"}

ExprInputs == {<<"{">> \o e \o <<"}">> : e \in SeqsUpTo(ExprChars, MaxExprLen)}

MaxStrLen == 4

\* characters of the quoted texts: a letter, the backslash, both quote characters
StrChars == {"a", "\\", "\"", "'"}

\* a quote, a body, the same quote
StrInputs == {<<q>> \o body \o <<q>> : q \in Quotes, body \in SeqsUpTo(StrChars, MaxStrLen)}

TokInputs == SeqsUpTo(RawChars, MaxRawLen) \cup ExprInputs \cup StrInputs

NoNode == NodeText(<<>>)

NoDom == [ok |-> FALSE, node |-> NoNode, err |-> <<>>]

NoCode == [panic |-> FALSE, code |-> <<>>]

(***************************************************************************)
(* The tokenizer driven directly: Tokenizer::new, then next_token calls    *)
(***************************************************************************)
InitTok ==
    /\ RuntimeNew
    /\ input \in TokInputs
    /\ position = 0
    /\ current_token = Eof
    /\ tokens = <<>>
    /\ dom = NoDom
    /\ rust_code = NoCode
    /\ printed_from = NoNode
    /\ pc = "tokenizing"

EofCalls == Cardinality({i \in 1..Len(tokens) : tokens[i] = Eof})

\* a variant whose call at the end of the input still advances
NextTokenCall_EofAdvances ==
    /\ pc = "tokenizing"
    /\ EofCalls < MaxEofCalls
    /\ LET r == NextToken(input, position)
       IN /\ tokens' = Append(tokens, r.token)
          /\ position' = IF r.token = Eof THEN r.position + 1 ELSE r.position
    /\ UNCHANGED <<input, current_token, dom, rust_code, printed_from, pc>>
    /\ UNCHANGED runtime_vars

\* one call of Tokenizer::next_token
NextTokenCall ==
    /\ pc = "tokenizing"
    /\ EofCalls < MaxEofCalls
    /\ LET r == NextToken(input, position)
       IN /\ tokens' = Append(tokens, r.token)
          /\ position' = r.position
    /\ UNCHANGED <<input, current_token, dom, rust_code, printed_from, pc>>
    /\ UNCHANGED runtime_vars

NextTok == NextTokenCall

SpecTok == InitTok /\ [][NextTok]_vars

(***************************************************************************)
(* Markup texts: trees printed as <tag attrs>children</tag>                *)
(***************************************************************************)
PrintAttribute(attr) ==
    IF attr.value.kind = "String"
    THEN <<" ">> \o attr.name \o <<"=", "\"">> \o attr.value.text \o <<"\"">>
    ELSE IF attr.value.kind = "Expression"
         THEN <<" ">> \o attr.name \o <<"=", "{">> \o attr.value.text \o <<"}">>
    ELSE <<" ">> \o attr.name

RECURSIVE PrintAttributes(_)
PrintAttributes(attributes) ==
    IF attributes = <<>> THEN <<>>
    ELSE PrintAttribute(Head(attributes)) \o PrintAttributes(Tail(attributes))

RECURSIVE PrintNode(_)
RECURSIVE PrintChildren(_)
\* the children, one after the other, with a space between two of them
PrintChildren(children) ==
    IF children = <<>> THEN <<>>
    ELSE IF Len(children) = 1 THEN PrintNode(children[1])
    ELSE PrintNode(children[1]) \o <<" ">> \o PrintChildren(Tail(children))

PrintNode(node) ==
    IF node.kind = "Text" THEN node.text
    ELSE IF node.kind = "Expression" THEN <<"{">> \o node.text \o <<"}">>
    ELSE IF node.self_closing
         THEN <<"<">> \o node.tag_name \o PrintAttributes(node.attributes) \o <<"/", ">">>
    ELSE <<"<">> \o node.tag_name \o PrintAttributes(node.attributes) \o <<">">>
             \o PrintChildren(node.children)
             \o <<"<", "/">> \o node.tag_name \o <<">">>

MaxMarkupAttrs == 2

MaxMarkupChildren == 2

MarkupTags == {<<"x">>, Str_text, <<"M">>}

MarkupAttrs ==
    {Attribute(n, v) : n \in {Str_center, Str_w_fit, <<"p">>},
                       v \in {ValueNone, ValueString(<<"s">>), ValueExpression(<<"f">>)}}

\* text runs: one word, two words
MarkupLeaves == {NodeText(<<"a">>), NodeText(<<"a", " ", "b">>), NodeExpression(<<"e">>)}

MarkupKids ==
    MarkupLeaves
    \cup {NodeElement(t, <<>>, <<>>, sc) : t \in MarkupTags, sc \in BOOLEAN}
    \cup {NodeElement(t, <<>>, <<NodeText(<<"a">>)>>, FALSE) : t \in MarkupTags}

\* the element of the documented example: <text font_size={18}>Hello World!</text>
DocumentedText ==
    NodeElement(Str_text,
                <<Attribute(<<"f", "o", "n", "t", "_", "s", "i", "z", "e">>,
                            ValueExpression(<<"1", "8">>))>>,
                <<NodeText(<<"H", "e", "l", "l", "o", " ", "W", "o", "r", "l", "d", "!">>)>>,
                FALSE)

MarkupTrees ==
    {DocumentedText} \cup
    {NodeElement(t, a, <<>>, sc) :
        t \in MarkupTags, a \in SeqsUpTo(MarkupAttrs, MaxMarkupAttrs), sc \in BOOLEAN}
    \cup {NodeElement(t, <<>>, k, FALSE) :
        t \in MarkupTags, k \in SeqsUpTo(MarkupKids, MaxMarkupChildren)}
    \cup {NodeElement(<<"x">>, <<a>>, <<k>>, FALSE) : a \in MarkupAttrs, k \in MarkupKids}

\* the texts damaged below: short elements, with and without a nested element
DamagedTrees ==
    {NodeElement(t, a, k, FALSE) :
        t \in {<<"x">>},
        a \in {<<>>, <<Attribute(<<"p">>, ValueString(<<"s">>))>>,
               <<Attribute(<<"p">>, ValueNone)>>},
        k \in {<<>>, <<NodeText(<<"a">>)>>, <<NodeExpression(<<"e">>)>>,
               <<NodeElement(<<"M">>, <<>>, <<>>, FALSE)>>,
               <<NodeElement(<<"M">>, <<>>, <<>>, TRUE)>>,
               <<NodeElement(<<"M">>, <<>>, <<NodeText(<<"a">>)>>, FALSE)>>}}

DamageChars == {"x", "M", "<", ">", "/", "=", "\"", "{", " "}

MaxSuffixLen == 2

SuffixChars == {"<", ">", "/", "x", " ", "\"", "{", "="}

\* the text with character i replaced by c
Replaced(text, i, c) == [text EXCEPT ![i] = c]

\* what takes the place of a quoted attribute value: an identifier, >, />, <, =,
\* a digit, nothing
ValueDamages == {<<"a">>, <<">">>, <<"/", ">">>, <<"<">>, <<"=">>, <<"1">>, <<>>}

\* the text with the three characters of the quoted value after the = at i replaced
ValueReplaced(text, i, v) == SubSeq(text, 1, i) \o v \o SubSeq(text, i + 4, Len(text))

\* a printed text cut short, with one character replaced, followed by a suffix, or
\* with an attribute value replaced
Damaged(text) ==
    {SubSeq(text, 1, n) : n \in 0..Len(text)}
    \cup {Replaced(text, i, c) : i \in 1..Len(text), c \in DamageChars}
    \cup {text \o suffix : suffix \in SeqsUpTo(SuffixChars, MaxSuffixLen)}
    \cup {ValueReplaced(text, i, v) :
            i \in {j \in 1..Len(text) - 3 : text[j] = "=" /\ text[j + 1] = "\""},
            v \in ValueDamages}

(***************************************************************************)
(* Generator inputs: Node trees                                            *)
(***************************************************************************)
MaxAttrs == 2

MaxChildren == 2

MaxDepth == 2

GenTags == {Str_container, Str_text, Str_clickable, <<"x">>, <<"M">>}

GenAttrs ==
    {Attribute(n, v) : n \in {Str_key, Str_center, Str_h_expand, <<"p">>},
                       v \in {ValueNone, ValueString(<<"s">>), ValueExpression(<<"f">>)}}

\* every boolean-flag method, and a name one character away from one
FlagAttrs ==
    {Attribute(n, v) : n \in {Str_h_expand, Str_w_expand, Str_w_fit, Str_center,
                              <<"w", "_", "f", "i", "x">>},
                       v \in {ValueNone, ValueExpression(<<"f">>)}}

\* text, whitespace-only text, empty text, text to trim, an expression
GenLeaves == {NodeText(<<"a">>), NodeText(<<" ">>), NodeText(<<>>), NodeText(<<" ", "a", " ">>),
              NodeExpression(<<"e">>)}

Childless == {NodeElement(t, <<>>, <<>>, TRUE) : t \in GenTags}

Siblings == {NodeText(<<"a">>), NodeElement(<<"x">>, <<>>, <<>>, TRUE)}

RECURSIVE Nested(_)
\* trees of depth at most d: an element holds a deeper tree alone, or beside a sibling
Nested(d) ==
    IF d = 0 THEN GenLeaves \cup Childless
    ELSE LET inner == Nested(d - 1)
         IN {NodeElement(t, <<>>, k, FALSE) :
                t \in GenTags,
                k \in {<<n>> : n \in inner}
                      \cup {<<s, n>> : s \in Siblings, n \in inner}
                      \cup {<<n, s>> : s \in Siblings, n \in inner}}

\* an element whose tag_name is the empty String, alone and as a second child
Unnamed ==
    {NodeElement(<<>>, <<>>, <<>>, TRUE)}
    \cup {NodeElement(t, <<>>, <<s, NodeElement(<<>>, <<>>, <<>>, TRUE)>>, FALSE) :
            t \in GenTags, s \in Siblings}

GenTrees ==
    {NodeElement(t, a, k, FALSE) :
        t \in GenTags, a \in SeqsUpTo(GenAttrs, MaxAttrs),
        k \in {<<>>, <<NodeText(<<"a">>)>>}}
    \cup {NodeElement(t, a, k, FALSE) :
        t \in GenTags,
        a \in {<<>>, <<Attribute(<<"p">>, ValueString(<<"s">>))>>},
        k \in SeqsUpTo(GenLeaves \cup Childless, MaxChildren)}
    \cup {NodeElement(t, <<a>>, <<>>, TRUE) : t \in GenTags, a \in FlagAttrs}
    \cup Unnamed
    \cup Nested(MaxDepth)

(***************************************************************************)
(* The rsml! pipeline: Parser::new, parse, generate                        *)
(***************************************************************************)
Init ==
    /\ RuntimeNew
    /\ printed_from \in MarkupTrees
    /\ \/ input = PrintNode(printed_from)
       \/ printed_from \in DamagedTrees /\ input \in Damaged(PrintNode(printed_from))
    /\ position = 0
    /\ current_token = Eof
    /\ tokens = <<>>
    /\ dom = NoDom
    /\ rust_code = NoCode
    /\ pc = "start"

\* Parser::new(&input_str)
NewParser ==
    /\ pc = "start"
    /\ position' = ParserNew(input).position
    /\ current_token' = ParserNew(input).current_token
    /\ pc' = "ready"
    /\ UNCHANGED <<input, tokens, dom, rust_code, printed_from>>
    /\ UNCHANGED runtime_vars

\* the state after parse returned r
ParseReturns(r) ==
    /\ dom' = [ok |-> r.ok, node |-> r.node, err |-> r.err]
    /\ position' = r.P.position
    /\ current_token' = r.P.current_token
    /\ pc' = IF r.ok THEN "parsed" ELSE "error"

\* parser.parse(): Ok(dom), or Err(e) and the compile error
ParseCall ==
    /\ pc = "ready"
    /\ ParseReturns(Parse(input, [position |-> position, current_token |-> current_token]))
    /\ UNCHANGED <<input, tokens, rust_code, printed_from>>
    /\ UNCHANGED runtime_vars

\* generator.generate(&dom): the code, or the panic
GenerateCall ==
    /\ pc = "parsed"
    /\ rust_code' = Generate(dom.node)
    /\ pc' = IF Generate(dom.node).panic THEN "panicked" ELSE "generated"
    /\ UNCHANGED <<input, position, current_token, tokens, dom, printed_from>>
    /\ UNCHANGED runtime_vars

Next == NewParser \/ ParseCall \/ GenerateCall

Spec == Init /\ [][Next]_vars

(***************************************************************************)
(* The generator on a given tree                                           *)
(***************************************************************************)
InitGen ==
    /\ RuntimeNew
    /\ input = <<>>
    /\ position = 0
    /\ current_token = Eof
    /\ tokens = <<>>
    /\ dom \in {[ok |-> TRUE, node |-> t, err |-> <<>>] : t \in GenTrees}
    /\ rust_code = NoCode
    /\ printed_from = NoNode
    /\ pc = "parsed"

NextGen == GenerateCall

SpecGen == InitGen /\ [][NextGen]_vars

(***************************************************************************)
(* The hooks runtime (src/hooks.rs)                                        *)
(***************************************************************************)
\* the compiler is not running
RsmlIdle ==
    /\ input = <<>>
    /\ position = 0
    /\ current_token = Eof
    /\ tokens = <<>>
    /\ dom = NoDom
    /\ rust_code = NoCode
    /\ printed_from = NoNode
    /\ pc = "idle"

MaxPathLen == 2

MaxChildCount == 2

MaxHookIndex == 2

MaxFrameCalls == 2

\* the strings given to begin_component
ComponentKeys == {"component-1"}

\* the values given to use_state
StateValues == {10, 42}

\* the values given to the setters
SetterValues == {42}

\* the values given to use_ref
RefValues == {10}

HookKey(path, hook_index) == [path |-> path, hook_index |-> hook_index]

\* the key a hook called now is given: the path, and the index before its increment
CurrentKey(h) == HookKey(h.HOOK_PATH, h.HOOK_INDEX)

\* values stored by use_state are T, values stored by use_ref are Rc<RefCell<T>>
StateBox(value) == [type |-> "state", value |-> value]

RefBox(value) == [type |-> "ref", value |-> value]

\* the keys use_state was called with in the calls
UseStateKeys(calls) == {calls[i].key : i \in {n \in 1..Len(calls) : calls[n].hook = "use_state"}}

\* a variant that leaves the count of the enclosing component alone
BeginComponent_NoCount(h, key) ==
    [h EXCEPT !.HOOK_PATH = Append(@, <<0, key>>), !.HOOK_INDEX = 0]

\* begin_component(key)
BeginComponent(h, key) ==
    [h EXCEPT !.HOOK_PATH =
                  IF h.HOOK_PATH = <<>>
                  THEN <<<<0, key>>>>
                  ELSE Append([i \in 1..Len(h.HOOK_PATH) |->
                                  IF i = Len(h.HOOK_PATH)
                                  THEN <<h.HOOK_PATH[i][1] + 1, h.HOOK_PATH[i][2]>>
                                  ELSE h.HOOK_PATH[i]],
                              <<0, key>>),
              !.HOOK_INDEX = 0]

\* a variant that collects the unvisited states whenever a component ends
EndComponent_AlwaysCollects(h) ==
    [h EXCEPT !.HOOK_PATH = SubSeq(@, 1, Len(@) - 1),
              !.HOOK_STATES = MapRetain(@, h.HOOK_VISITED_STATES),
              !.HOOK_VISITED_STATES = {},
              !.dropped = DOMAIN h.HOOK_STATES \ h.HOOK_VISITED_STATES,
              !.setters = IF Len(h.HOOK_PATH) = 1 THEN UseStateKeys(h.frame_calls) ELSE @,
              !.latest = IF Len(h.HOOK_PATH) = 1
                         THEN MapRetain(@, UseStateKeys(h.frame_calls)) ELSE @,
              !.frame_calls = IF Len(h.HOOK_PATH) = 1 THEN <<>> ELSE @]

\* end_component(), called with a component open
EndComponent(h) ==
    IF Len(h.HOOK_PATH) = 1
    THEN [h EXCEPT !.HOOK_PATH = <<>>,
                   !.HOOK_STATES = MapRetain(@, h.HOOK_VISITED_STATES),
                   !.HOOK_VISITED_STATES = {},
                   !.dropped = DOMAIN h.HOOK_STATES \ h.HOOK_VISITED_STATES,
                   !.setters = UseStateKeys(h.frame_calls),
                   !.latest = MapRetain(@, UseStateKeys(h.frame_calls)),
                   !.frame_calls = <<>>]
    ELSE [h EXCEPT !.HOOK_PATH = SubSeq(@, 1, Len(@) - 1), !.dropped = {}]

\* the hook call's bookkeeping: the index moves on, the key is visited
HookCalled(h) ==
    [h EXCEPT !.HOOK_INDEX = @ + 1,
              !.HOOK_VISITED_STATES = @ \cup {CurrentKey(h)}]

\* entry(key).or_insert_with(boxed)
OrInsert(states, key, boxed) ==
    IF key \in DOMAIN states THEN states ELSE MapInsert(states, key, boxed)

\* the call returned the value
Returned(h, key, hook, initial, value) ==
    [h EXCEPT !.frame_calls = Append(@, [key |-> key, hook |-> hook, initial |-> initial,
                                         value |-> <<value>>])]

\* downcast_ref().unwrap() on a value of another type
DowncastPanics(h, key, hook, initial) ==
    [h EXCEPT !.frame_calls = Append(@, [key |-> key, hook |-> hook, initial |-> initial,
                                         value |-> <<>>]),
              !.panicked = TRUE]

\* a variant that stores the initial value at every call
UseState_Overwrites(h, initial) ==
    Returned([HookCalled(h) EXCEPT
                  !.HOOK_STATES = MapInsert(@, CurrentKey(h), StateBox(initial)),
                  !.setters = @ \cup {CurrentKey(h)},
                  !.latest = OrInsert(@, CurrentKey(h), initial)],
             CurrentKey(h), "use_state", initial, initial)

\* use_state(initial)
UseState(h, initial) ==
    IF OrInsert(h.HOOK_STATES, CurrentKey(h), StateBox(initial))[CurrentKey(h)].type = "state"
    THEN Returned([HookCalled(h) EXCEPT
                       !.HOOK_STATES = OrInsert(@, CurrentKey(h), StateBox(initial)),
                       !.setters = @ \cup {CurrentKey(h)},
                       !.latest = OrInsert(@, CurrentKey(h), initial)],
                  CurrentKey(h), "use_state", initial,
                  OrInsert(h.HOOK_STATES, CurrentKey(h), StateBox(initial))[CurrentKey(h)].value)
    ELSE DowncastPanics(HookCalled(h), CurrentKey(h), "use_state", initial)

\* use_ref(initial)
UseRef(h, initial) ==
    IF OrInsert(h.HOOK_STATES, CurrentKey(h), RefBox(initial))[CurrentKey(h)].type = "ref"
    THEN Returned([HookCalled(h) EXCEPT
                       !.HOOK_STATES = OrInsert(@, CurrentKey(h), RefBox(initial))],
                  CurrentKey(h), "use_ref", initial,
                  OrInsert(h.HOOK_STATES, CurrentKey(h), RefBox(initial))[CurrentKey(h)].value)
    ELSE DowncastPanics(HookCalled(h), CurrentKey(h), "use_ref", initial)

\* a variant that stores the value at the first hook of the setter's component
Setter_FirstHook(h, key, new_value) ==
    [h EXCEPT !.HOOK_STATES = MapInsert(@, HookKey(key.path, 0), StateBox(new_value)),
              !.latest = IF key \in DOMAIN @ THEN MapInsert(@, key, new_value) ELSE @]

\* the setter use_state returned for the key, called with new_value
Setter(h, key, new_value) ==
    [h EXCEPT !.HOOK_STATES = MapInsert(@, key, StateBox(new_value)),
              !.latest = IF key \in DOMAIN @ THEN MapInsert(@, key, new_value) ELSE @]

InitHooks ==
    /\ RsmlIdle
    /\ RuntimeNew

\* Component::new enters a component
BeginComponentCall ==
    /\ ~hooks.panicked
    /\ Len(hooks.HOOK_PATH) < MaxPathLen
    /\ hooks.HOOK_PATH # <<>> => hooks.HOOK_PATH[Len(hooks.HOOK_PATH)][1] < MaxChildCount
    /\ \E key \in ComponentKeys : hooks' = BeginComponent(hooks, key)
    /\ UNCHANGED <<rsml_vars, input_manager, focus_manager>>

\* Component::new leaves the component it entered
EndComponentCall ==
    /\ ~hooks.panicked
    /\ hooks.HOOK_PATH # <<>>
    /\ hooks' = EndComponent(hooks)
    /\ UNCHANGED <<rsml_vars, input_manager, focus_manager>>

\* the component function calls use_state
UseStateCall ==
    /\ ~hooks.panicked
    /\ hooks.HOOK_PATH # <<>>
    /\ hooks.HOOK_INDEX < MaxHookIndex
    /\ Len(hooks.frame_calls) < MaxFrameCalls
    /\ \E initial \in StateValues : hooks' = UseState(hooks, initial)
    /\ UNCHANGED <<rsml_vars, input_manager, focus_manager>>

\* the component function calls use_ref
UseRefCall ==
    /\ ~hooks.panicked
    /\ hooks.HOOK_PATH # <<>>
    /\ hooks.HOOK_INDEX < MaxHookIndex
    /\ Len(hooks.frame_calls) < MaxFrameCalls
    /\ \E initial \in RefValues : hooks' = UseRef(hooks, initial)
    /\ UNCHANGED <<rsml_vars, input_manager, focus_manager>>

\* a setter of this frame or of the last one is called
SetterCall ==
    /\ ~hooks.panicked
    /\ \E key \in hooks.setters, new_value \in SetterValues :
           hooks' = Setter(hooks, key, new_value)
    /\ UNCHANGED <<rsml_vars, input_manager, focus_manager>>

NextHooks ==
    \/ BeginComponentCall
    \/ EndComponentCall
    \/ UseStateCall
    \/ UseRefCall
    \/ SetterCall

SpecHooks == InitHooks /\ [][NextHooks]_vars

(***************************************************************************)
(* The input manager (src/input/winit_impl.rs) as create_window drives it  *)
(***************************************************************************)
MaxEvents == 2

\* the mouse buttons (u16) and the keys of the events
Buttons == {0, 1}

Keys == {"Tab", "Shift"}

ImeEvents == {"Enabled", "Preedit", "Commit", "DeleteSurrounding", "Disabled"}

\* map.get(&k).copied().unwrap_or(false)
GetOrFalse(m, k) == IF k \in DOMAIN m THEN m[k] ELSE FALSE

\* WinitInputManager::update
Update(m) ==
    [m EXCEPT !.mouse_buttons_previous = m.mouse_buttons_current,
              !.mouse_buttons_pressed = EmptyMap,
              !.keys_previous = m.keys_current,
              !.events = <<>>,
              !.key_events = 0]

\* WinitInputManager::set_mouse_button
SetMouseButton(m, button, pressed) ==
    [m EXCEPT !.mouse_buttons_current = MapInsert(@, button, pressed),
              !.mouse_buttons_pressed = MapInsert(@, button, pressed),
              !.events = Append(@, [button |-> button, pressed |-> pressed])]

\* WinitInputManager::handle_key_event
HandleKeyEvent(m, key, pressed) ==
    IF m.ime_editing
    THEN [m EXCEPT !.key_events = @ + 1]
    ELSE [m EXCEPT !.keys_current = MapInsert(@, key, pressed), !.key_events = @ + 1]

\* WinitInputManager::handle_ime_event
HandleImeEvent(m, ime) ==
    [m EXCEPT !.ime_editing = CASE ime = "Enabled" -> TRUE
                                [] ime \in {"Commit", "Disabled"} -> FALSE
                                [] OTHER -> @,
              !.key_events = @ + 1]

IsMouseButtonPressed(m, button) == GetOrFalse(m.mouse_buttons_current, button)

IsMouseButtonJustPressed(m, button) ==
    \/ GetOrFalse(m.mouse_buttons_current, button)
           /\ ~GetOrFalse(m.mouse_buttons_previous, button)
    \/ button \in DOMAIN m.mouse_buttons_pressed /\ m.mouse_buttons_pressed[button]

IsMouseButtonJustReleased(m, button) ==
    \/ ~GetOrFalse(m.mouse_buttons_current, button)
           /\ GetOrFalse(m.mouse_buttons_previous, button)
    \/ button \in DOMAIN m.mouse_buttons_pressed /\ ~m.mouse_buttons_pressed[button]

IsKeyPressed(m, key) == GetOrFalse(m.keys_current, key)

IsKeyJustPressed(m, key) == GetOrFalse(m.keys_current, key) /\ ~GetOrFalse(m.keys_previous, key)

IsKeyJustReleased(m, key) == ~GetOrFalse(m.keys_current, key) /\ GetOrFalse(m.keys_previous, key)

InitInput ==
    /\ RsmlIdle
    /\ RuntimeNew

\* on_mouse_button: a button event arrives between two frames
MouseButtonEvent ==
    /\ Len(input_manager.events) + input_manager.key_events < MaxEvents
    /\ \E button \in Buttons, pressed \in BOOLEAN :
           input_manager' = SetMouseButton(input_manager, button, pressed)
    /\ UNCHANGED <<rsml_vars, hooks, focus_manager>>

\* on_key_event: a key event arrives between two frames
KeyEvent ==
    /\ Len(input_manager.events) + input_manager.key_events < MaxEvents
    /\ \E key \in Keys, pressed \in BOOLEAN :
           input_manager' = HandleKeyEvent(input_manager, key, pressed)
    /\ UNCHANGED <<rsml_vars, hooks, focus_manager>>

\* on_ime_event: an IME event arrives between two frames
ImeEvent ==
    /\ Len(input_manager.events) + input_manager.key_events < MaxEvents
    /\ \E ime \in ImeEvents : input_manager' = HandleImeEvent(input_manager, ime)
    /\ UNCHANGED <<rsml_vars, hooks, focus_manager>>

\* on_render_callback: the frame reads the input manager as it is, then calls update
RenderCallback ==
    /\ input_manager' = Update(input_manager)
    /\ UNCHANGED <<rsml_vars, hooks, focus_manager>>

NextInput ==
    \/ MouseButtonEvent
    \/ KeyEvent
    \/ ImeEvent
    \/ RenderCallback

SpecInput == InitInput /\ [][NextInput]_vars

(***************************************************************************)
(* The focus manager (src/focus_system.rs) as create_window drives it      *)
(***************************************************************************)
\* the ids the elements register
Uuids == {"u1", "u2", "u3"}

ParentRoot == [kind |-> "Root", id |-> None]

ParentOf(id) == [kind |-> "Parent", id |-> id]

ParentUndefined == [kind |-> "Undefined", id |-> None]

FocusNode(parent, prev, next, skip) ==
    [parent |-> parent, prev |-> prev, next |-> next, skip |-> skip]

\* option.or(other)
OrElse(option, other) == IF option # None THEN option ELSE other

\* FocusManager::blur
Blur(f) == [f EXCEPT !.current = None]

\* the while loop of focus_next
RECURSIVE FocusNextLoop(_, _)
FocusNextLoop(f, next) ==
    IF next = None \/ next \notin DOMAIN f.focus_nodes
    THEN [f EXCEPT !.current = None]
    ELSE IF ~f.focus_nodes[next].skip
    THEN [f EXCEPT !.current = next]
    ELSE IF next = f.first
    THEN [f EXCEPT !.current = None]
    ELSE FocusNextLoop(f, OrElse(f.focus_nodes[next].next, f.first))

\* FocusManager::focus_next; indexing focus_nodes by an absent current panics
FocusNext(f) ==
    IF f.current # None /\ f.current \notin DOMAIN f.focus_nodes
    THEN [f EXCEPT !.panicked = TRUE]
    ELSE FocusNextLoop(f, IF f.current = None
                          THEN f.first
                          ELSE OrElse(f.focus_nodes[f.current].next, f.first))

\* the while loop of focus_prev
RECURSIVE FocusPrevLoop(_, _)
FocusPrevLoop(f, prev) ==
    IF prev = None \/ prev \notin DOMAIN f.focus_nodes
    THEN [f EXCEPT !.current = None]
    ELSE IF ~f.focus_nodes[prev].skip
    THEN [f EXCEPT !.current = prev]
    ELSE IF prev = f.last
    THEN [f EXCEPT !.current = None]
    ELSE FocusPrevLoop(f, OrElse(f.focus_nodes[prev].prev, f.last))

\* FocusManager::focus_prev; indexing focus_nodes by an absent current panics
FocusPrev(f) ==
    IF f.current # None /\ f.current \notin DOMAIN f.focus_nodes
    THEN [f EXCEPT !.panicked = TRUE]
    ELSE FocusPrevLoop(f, IF f.current = None
                          THEN f.last
                          ELSE OrElse(f.focus_nodes[f.current].prev, f.last))

\* FocusManager::remove_dangling_nodes
RemoveDanglingNodes(f) ==
    IF f.current = None
    THEN f
    ELSE IF f.current \notin DOMAIN f.focus_nodes
    THEN [f EXCEPT !.current = None]
    ELSE IF f.focus_nodes[f.current].skip
    THEN FocusNext(f)
    ELSE f

\* FocusManager::new_frame
NewFrame(f) ==
    [RemoveDanglingNodes(f) EXCEPT !.first = None,
                                   !.last = None,
                                   !.focus_nodes = EmptyMap,
                                   !.inserted = <<>>]

\* a variant that leaves the next of the node before alone
AddNode_Unlinked(f, id, skip) ==
    IF id \in DOMAIN f.focus_nodes
    THEN [f EXCEPT !.focus_nodes[id].skip = skip]
    ELSE [f EXCEPT !.focus_nodes =
                       MapInsert(@, id, FocusNode(ParentUndefined, f.last, None, skip)),
                   !.first = OrElse(@, id),
                   !.last = id,
                   !.inserted = Append(@, id)]

\* FocusManager::add_node
AddNode(f, id, skip) ==
    IF id \in DOMAIN f.focus_nodes
    THEN [f EXCEPT !.focus_nodes[id].skip = skip]
    ELSE [f EXCEPT !.focus_nodes =
                       MapInsert(IF f.last # None
                                 THEN [@ EXCEPT ![f.last].next = id]
                                 ELSE @,
                                 id, FocusNode(ParentUndefined, f.last, None, skip)),
                   !.first = OrElse(@, id),
                   !.last = id,
                   !.inserted = Append(@, id)]

\* FocusManager::set_node_skip
SetNodeSkip(f, id, skip) ==
    IF id \in DOMAIN f.focus_nodes
    THEN [f EXCEPT !.focus_nodes[id].skip = skip]
    ELSE f

\* FocusManager::set_parent
SetParent(f, children, parent) ==
    [f EXCEPT !.focus_nodes =
                  [id \in DOMAIN @ |->
                      IF id \in children /\ @[id].parent = ParentUndefined
                      THEN [@[id] EXCEPT !.parent = ParentOf(parent)]
                      ELSE @[id]]]

\* FocusManager::add_root
AddRoot(f) ==
    [f EXCEPT !.focus_nodes =
                  [id \in DOMAIN @ |->
                      IF @[id].parent = ParentUndefined
                      THEN [@[id] EXCEPT !.parent = ParentRoot]
                      ELSE @[id]]]

\* FocusManager::set_focus
SetFocus(f, id) ==
    IF id \in DOMAIN f.focus_nodes THEN [f EXCEPT !.current = id] ELSE f

InitFocus ==
    /\ RsmlIdle
    /\ RuntimeNew

\* the callback reached the place
At(f, place) == [f EXCEPT !.at = place]

\* on_render_callback starts: f.add_root()
AddRootCall ==
    /\ ~focus_manager.panicked
    /\ focus_manager.at \in {"callback", "render"}
    /\ focus_manager' = At(AddRoot(focus_manager), "rooted")
    /\ UNCHANGED <<rsml_vars, hooks, input_manager>>

\* Tab was just pressed: f.focus_next()
FocusNextCall ==
    /\ ~focus_manager.panicked
    /\ focus_manager.at = "rooted"
    /\ focus_manager' = At(FocusNext(focus_manager), "traversed")
    /\ UNCHANGED <<rsml_vars, hooks, input_manager>>

\* Tab was just pressed with Shift down: f.focus_prev()
FocusPrevCall ==
    /\ ~focus_manager.panicked
    /\ focus_manager.at = "rooted"
    /\ focus_manager' = At(FocusPrev(focus_manager), "traversed")
    /\ UNCHANGED <<rsml_vars, hooks, input_manager>>

\* a click on nothing, or Escape: f.blur()
BlurCall ==
    /\ ~focus_manager.panicked
    /\ focus_manager.at \in {"rooted", "traversed"}
    /\ focus_manager' = At(Blur(focus_manager), "blurred")
    /\ UNCHANGED <<rsml_vars, hooks, input_manager>>

\* f.new_frame(), then the root component is built and rendered
NewFrameCall ==
    /\ ~focus_manager.panicked
    /\ focus_manager.at \in {"rooted", "traversed", "blurred"}
    /\ focus_manager' = At(NewFrame(focus_manager), "render")
    /\ UNCHANGED <<rsml_vars, hooks, input_manager>>

\* an element registers its focus node
AddNodeCall ==
    /\ ~focus_manager.panicked
    /\ focus_manager.at = "render"
    /\ \E id \in Uuids, skip \in BOOLEAN : focus_manager' = AddNode(focus_manager, id, skip)
    /\ UNCHANGED <<rsml_vars, hooks, input_manager>>

\* an element with a focus node changes its skip flag
SetNodeSkipCall ==
    /\ ~focus_manager.panicked
    /\ focus_manager.at = "render"
    /\ \E id \in Uuids, skip \in BOOLEAN :
           focus_manager' = SetNodeSkip(focus_manager, id, skip)
    /\ UNCHANGED <<rsml_vars, hooks, input_manager>>

\* an element becomes the parent of the focus nodes of its children
SetParentCall ==
    /\ ~focus_manager.panicked
    /\ focus_manager.at = "render"
    /\ \E children \in SUBSET Uuids, parent \in Uuids :
           focus_manager' = SetParent(focus_manager, children, parent)
    /\ UNCHANGED <<rsml_vars, hooks, input_manager>>

\* a clicked element takes the focus
SetFocusCall ==
    /\ ~focus_manager.panicked
    /\ focus_manager.at = "render"
    /\ \E id \in Uuids : focus_manager' = SetFocus(focus_manager, id)
    /\ UNCHANGED <<rsml_vars, hooks, input_manager>>

NextFocus ==
    \/ AddRootCall
    \/ FocusNextCall
    \/ FocusPrevCall
    \/ BlurCall
    \/ NewFrameCall
    \/ AddNodeCall
    \/ SetNodeSkipCall
    \/ SetParentCall
    \/ SetFocusCall

SpecFocus == InitFocus /\ [][NextFocus]_vars

(***************************************************************************)
(* C1: brace matching of expression tokens                                 *)
(***************************************************************************)
RECURSIVE BraceScan(_, _, _, _, _)
\* Reads E from index i on: quote is the quote character of the quoted
\* substring being read (None outside one), esc says the character is escaped,
\* depth is the brace depth outside quoted substrings.  Gives whether the depth
\* stayed non-negative, the final depth and the final quote.
BraceScan(e, i, quote, esc, depth) ==
    IF i > Len(e) THEN [nonneg |-> TRUE, depth |-> depth, quote |-> quote]
    ELSE IF quote # None
         THEN IF esc THEN BraceScan(e, i + 1, quote, FALSE, depth)
              ELSE IF e[i] = "\\" THEN BraceScan(e, i + 1, quote, TRUE, depth)
              ELSE IF e[i] = quote THEN BraceScan(e, i + 1, None, FALSE, depth)
              ELSE BraceScan(e, i + 1, quote, FALSE, depth)
    ELSE IF e[i] \in Quotes THEN BraceScan(e, i + 1, e[i], FALSE, depth)
    ELSE IF e[i] = "{" THEN BraceScan(e, i + 1, None, FALSE, depth + 1)
    ELSE IF e[i] = "}"
         THEN IF depth = 0 THEN [nonneg |-> FALSE, depth |-> depth, quote |-> quote]
              ELSE BraceScan(e, i + 1, None, FALSE, depth - 1)
    ELSE BraceScan(e, i + 1, None, FALSE, depth)

\* the braces of E outside its quoted substrings are properly nested
BalancedBraces(e) ==
    LET r == BraceScan(e, 1, None, FALSE, 0) IN r.nonneg /\ r.depth = 0

\* every quote opened in E is closed in E
QuotesClosed(e) == BraceScan(e, 1, None, FALSE, 0).quote = None

\* the input is {E}
IsBracedInput == Len(input) >= 2 /\ input[1] = "{" /\ input[Len(input)] = "}"

BracedText == SubSeq(input, 2, Len(input) - 1)

\* C1: for every expression text E with balanced braces (braces inside quoted
\* substrings not counted), a fresh tokenizer on {E} returns Expression(E)
\* and then Eof.
C1_ExpressionTokenIsText ==
    (pc = "tokenizing" /\ IsBracedInput /\ BalancedBraces(BracedText) /\ Len(tokens) >= 2)
        => (tokens[1] = Expression(BracedText) /\ tokens[2] = Eof)

\* The same with every quote of E closed inside E: the case the tokenizer handles.
C1_ClosedQuotesExpressionToken ==
    (pc = "tokenizing" /\ IsBracedInput /\ BalancedBraces(BracedText)
        /\ QuotesClosed(BracedText) /\ Len(tokens) >= 2)
        => (tokens[1] = Expression(BracedText) /\ tokens[2] = Eof)

(***************************************************************************)
(* The generated string, and the pieces the claims below speak of          *)
(***************************************************************************)
RECURSIVE CodeString(_)
\* the fragments of generated code joined into the string they stand for
CodeString(code) == IF code = <<>> THEN "" ELSE Head(code) \o CodeString(Tail(code))

Parsed == pc \in {"parsed", "generated", "panicked"}

ParseReturned == pc \in {"parsed", "generated", "panicked", "error"}

GenerateReturned == pc \in {"generated", "panicked"}

\* the input is the printed tree, undamaged
IsPrintedInput == input = PrintNode(printed_from)

(***************************************************************************)
(* C2: closing tags                                                        *)
(***************************************************************************)
RECURSIVE TokenList(_, _)
\* every token of the text from position p on, Eof left out, with its end position
TokenList(text, p) ==
    LET r == NextToken(text, p) IN
    IF r.token = Eof THEN <<>>
    ELSE <<[token |-> r.token, end |-> r.position]>> \o TokenList(text, r.position)

\* the tokens the parser has consumed: those before its current token
ConsumedTokens ==
    LET all == TokenList(input, 0) IN
    SelectSeq(all, LAMBDA t : t.end < position \/ current_token = Eof)

\* the identifiers after the </ tokens, in order (None where no identifier follows)
EndTagNames(toks) ==
    LET ends == SelectSeq([i \in 1..Len(toks) |-> i], LAMBDA i : toks[i].token = EndOpenTag)
    IN [j \in 1..Len(ends) |->
            IF ends[j] < Len(toks) /\ toks[ends[j] + 1].token.type = "Identifier"
            THEN toks[ends[j] + 1].token.text
            ELSE <<None>>]

RECURSIVE ClosedTagNames(_)
RECURSIVE ClosedTagNamesOf(_)
\* the tag names of the elements with self_closing = false, in the order they end
ClosedTagNames(node) ==
    IF node.kind # "Element" THEN <<>>
    ELSE ClosedTagNamesOf(node.children)
             \o (IF node.self_closing THEN <<>> ELSE <<node.tag_name>>)

ClosedTagNamesOf(children) ==
    IF children = <<>> THEN <<>>
    ELSE ClosedTagNames(Head(children)) \o ClosedTagNamesOf(Tail(children))

\* the input is a printed tree with one letter of a closing tag's name replaced
ClosingNameDamaged ==
    LET printed == PrintNode(printed_from) IN
    /\ Len(input) = Len(printed)
    /\ \E i \in 3..Len(printed) :
        /\ printed[i - 2] = "<" /\ printed[i - 1] = "/"
        /\ input[i] \in {"x", "M"} /\ input[i] # printed[i]
        /\ input = Replaced(printed, i, input[i])

\* C2: when parse returns Ok, the end tags it consumed name, in order, exactly the
\* non-self-closing elements of the tree; a text whose closing tag name differs from
\* the opening one makes parse return the mismatch error, and no tree.
C2_ClosingTagsMatch ==
    /\ Parsed => (dom.ok /\ EndTagNames(ConsumedTokens) = ClosedTagNames(dom.node))
    /\ (ParseReturned /\ ClosingNameDamaged) =>
            /\ pc = "error" /\ ~dom.ok /\ dom.node = NoNode
            /\ Head(dom.err) = "Mismatched closing tag: expected </"
    /\ pc = "error" => (~dom.ok /\ dom.node = NoNode)

C2_Witness ==
    /\ pc = "parsed"
    /\ Len(ClosedTagNames(dom.node)) >= 2
    /\ \E i \in 1..Len(dom.node.children) : dom.node.children[i].self_closing

C2_MismatchRejected == pc = "error" /\ ClosingNameDamaged

(***************************************************************************)
(* C3: round trip                                                          *)
(***************************************************************************)
\* same tag name, same attributes in the same order, same kinds of children in order
Equivalent(node, tree) ==
    /\ node.kind = tree.kind
    /\ node.tag_name = tree.tag_name
    /\ node.attributes = tree.attributes
    /\ Len(node.children) = Len(tree.children)
    /\ \A i \in 1..Len(tree.children) : node.children[i].kind = tree.children[i].kind

RECURSIVE HasTextRunOfWords(_)
\* some text node of the tree holds a whitespace character: more than one word
HasTextRunOfWords(tree) ==
    \/ tree.kind = "Text" /\ \E i \in 1..Len(tree.text) : IsWhitespace(tree.text[i])
    \/ \E i \in 1..Len(tree.children) : HasTextRunOfWords(tree.children[i])

\* C3: a tree with self_closing = false at the root, printed as
\* <tag attrs>children</tag> and parsed, gives an equivalent tree.
C3_RoundTrip ==
    (ParseReturned /\ IsPrintedInput /\ ~printed_from.self_closing)
        => (dom.ok /\ Equivalent(dom.node, printed_from))

\* The round trip of the trees whose text runs are single words: the parser
\* returns the very tree.
C3_SingleWordRoundTrip ==
    (ParseReturned /\ IsPrintedInput /\ ~HasTextRunOfWords(printed_from))
        => (dom.ok /\ dom.node = printed_from)

(***************************************************************************)
(* C4: attribute disambiguation                                            *)
(***************************************************************************)
BooleanFlagMethods == {"h_expand", "w_expand", "w_fit", "center"}

\* the translation of one attribute, applied to the receiver's code
Translated(receiver, attr) ==
    LET name == CodeString(attr.name)
        val == CodeString(attr.value.text)
    IN IF attr.value.kind = "None" THEN receiver \o "." \o name \o "()"
       ELSE IF attr.value.kind = "String"
            THEN receiver \o "." \o name \o "(\"" \o val \o "\")"
       ELSE IF name \in BooleanFlagMethods
            THEN "if " \o val \o " { " \o receiver \o "." \o name \o "() } else { "
                     \o receiver \o " }"
       ELSE receiver \o "." \o name \o "(" \o val \o ")"

RECURSIVE Chained(_, _)
\* the attributes translated one after the other, in source order
Chained(receiver, attributes) ==
    IF attributes = <<>> THEN receiver
    ELSE Chained(Translated(receiver, Head(attributes)), Tail(attributes))

IsPrimitive(node) == node.kind = "Element" /\ ~IsUppercase(Head(node.tag_name))

IsTextWithElement(node) ==
    /\ node.kind = "Element" /\ node.tag_name = Str_text
    /\ \E i \in 1..Len(node.children) : node.children[i].kind = "Element"

RECURSIVE ContainsTextWithElement(_)
\* the tree holds such a text element, at any depth and in any child position
ContainsTextWithElement(node) ==
    \/ IsTextWithElement(node)
    \/ \E i \in 1..Len(node.children) : ContainsTextWithElement(node.children[i])

RECURSIVE GeneratesTextWithElement(_)
\* the tree holds such a text element in a place code is generated for: not in a
\* child of a clickable element after its first
GeneratesTextWithElement(node) ==
    \/ IsTextWithElement(node)
    \/ /\ node.kind = "Element" /\ node.tag_name = Str_clickable
       /\ node.children # <<>> /\ GeneratesTextWithElement(node.children[1])
    \/ /\ node.kind = "Element" /\ node.tag_name \notin {Str_clickable, Str_text}
       /\ \E i \in 1..Len(node.children) : GeneratesTextWithElement(node.children[i])

\* C5: generating code for a tree that holds, at any depth and in any child
\* position, a text element with an element child fails.
C5_TextInTextFails ==
    (GenerateReturned /\ ContainsTextWithElement(dom.node)) => rust_code.panic

\* C5 amended: it fails when the text element is in a place code is generated for;
\* the children of a clickable element after the first are dropped unseen.
C5_GeneratedTextInTextFails ==
    (GenerateReturned /\ GeneratesTextWithElement(dom.node))
        => (rust_code.panic /\ rust_code.code = <<>> /\ pc = "panicked")

C5_Witness ==
    /\ pc = "panicked"
    /\ ~IsTextWithElement(dom.node)
    /\ Len(dom.node.children) = 2
    /\ IsTextWithElement(dom.node.children[2])

RECURSIVE AllNamed(_)
\* every element of the tree has a tag name of at least one character
AllNamed(node) ==
    node.kind = "Element" =>
        /\ node.tag_name # <<>>
        /\ \A i \in 1..Len(node.children) : AllNamed(node.children[i])

Unboxed(child) ==
    IF child.kind = "Element" THEN CodeString(GenerateElementInner(child).code)
    ELSE IF child.kind = "Text" THEN "hyprui::Text::new(\"" \o CodeString(child.text) \o "\")"
    ELSE CodeString(child.text)

IsBlank(child) ==
    child.kind = "Text" /\ \A i \in 1..Len(child.text) : child.text[i] \in Whitespace

RECURSIVE ChildInsertions(_)
\* one .child(...) per child that is not whitespace-only, in source order
ChildInsertions(children) ==
    IF children = <<>> THEN ""
    ELSE IF IsBlank(Head(children)) THEN ChildInsertions(Tail(children))
    ELSE ".child(" \o Unboxed(Head(children)) \o ")" \o ChildInsertions(Tail(children))

\* the forms one chained method call for an attribute may take
MethodCalls(receiver, attr) ==
    LET name == CodeString(attr.name)
        val == CodeString(attr.value.text)
    IN {receiver \o "." \o name \o "()",
        receiver \o "." \o name \o "(" \o val \o ")",
        receiver \o "." \o name \o "(\"" \o val \o "\")"}

RECURSIVE MethodChains(_, _)
\* the receiver followed by exactly one chained method call per attribute
MethodChains(receiver, attributes) ==
    IF attributes = <<>> THEN {receiver}
    ELSE UNION {MethodChains(c, Tail(attributes)) : c \in MethodCalls(receiver, Head(attributes))}

ZeroArgumentConstructor(tag_name) ==
    IF tag_name = Str_container THEN "hyprui::Container::new()"
    ELSE CodeString(tag_name) \o "::new()"

IsOtherPrimitive(node) ==
    /\ node.kind = "Element" /\ node.tag_name # <<>>
    /\ ~IsUppercase(Head(node.tag_name))
    /\ node.tag_name \notin {Str_text, Str_clickable}

KeyRendering(value) ==
    IF value.kind = "String" THEN "\"" \o CodeString(value.text) \o "\""
    ELSE CodeString(value.text)

\* the values the key attributes of the element carry, rendered
KeyRenderings(attributes) ==
    {KeyRendering(attributes[i].value) :
        i \in {j \in 1..Len(attributes) :
                  attributes[j].name = Str_key /\ attributes[j].value.kind # "None"}}

KeyArguments(attributes) ==
    IF KeyRenderings(attributes) = {} THEN {"\"default_key\""} ELSE KeyRenderings(attributes)

\* the key argument taken from the first attribute named key alone
FirstKeyArgument(attributes) ==
    LET keys == {j \in 1..Len(attributes) : attributes[j].name = Str_key} IN
    IF keys = {} THEN "\"default_key\""
    ELSE LET first == CHOOSE j \in keys : \A k \in keys : j <= k IN
         IF attributes[first].value.kind = "None" THEN "\"default_key\""
         ELSE KeyRendering(attributes[first].value)

ChildArgument(children) ==
    IF children = <<>> THEN "hyprui::Text::new(\"\")" ELSE Unboxed(Head(children))

ExceptKey(attributes) == SelectSeq(attributes, LAMBDA a : a.name # Str_key)

IsClickable(node) == node.kind = "Element" /\ node.tag_name = Str_clickable

RECURSIVE JoinLines(_, _)
JoinLines(lines, sep) ==
    IF lines = <<>> THEN ""
    ELSE IF Len(lines) = 1 THEN lines[1]
    ELSE lines[1] \o sep \o JoinLines(Tail(lines), sep)

FieldAssignment(attr) ==
    "        props." \o CodeString(attr.name) \o " = "
        \o (IF attr.value.kind = "String" THEN "\"" \o CodeString(attr.value.text) \o "\""
            ELSE IF attr.value.kind = "Expression" THEN CodeString(attr.value.text)
            ELSE "true")
        \o ";"

FieldAssignments(attributes) == [i \in 1..Len(attributes) |-> FieldAssignment(attributes[i])]

NonBlank(children) == SelectSeq(children, LAMBDA c : ~IsBlank(c))

\* the children field, its entries as generate_with_box renders them
ChildrenField(children) ==
    "        props.children = vec!["
        \o JoinLines([i \in 1..Len(NonBlank(children)) |->
                         CodeString(GenerateWithBox(NonBlank(children)[i], TRUE).code)], ", ")
        \o "];"

\* the children field with every entry in boxed form
BoxedChildrenField(children) ==
    "        props.children = vec!["
        \o JoinLines([i \in 1..Len(NonBlank(children)) |->
                         "Box::new(" \o Unboxed(NonBlank(children)[i]) \o ")"], ", ")
        \o "];"

PropsBlock(lines) ==
    "{\n        let mut props = Default::default();\n" \o JoinLines(lines, "\n")
        \o "\n        props\n    }"

ComponentCode(tag_name, props) ==
    "Box::new(hyprui::Component::new(" \o CodeString(tag_name) \o ", " \o props \o "))"

IsComponent(node) ==
    node.kind = "Element" /\ node.tag_name # <<>> /\ IsUppercase(Head(node.tag_name))

C10_ComponentChildrenBoxed ==
    (pc = "generated" /\ IsComponent(dom.node) /\ NonBlank(dom.node.children) # <<>>) =>
        CodeString(rust_code.code) =
            ComponentCode(dom.node.tag_name,
                PropsBlock(FieldAssignments(dom.node.attributes)
                               \o <<BoxedChildrenField(dom.node.children)>>))

(***************************************************************************)
(* C11: text elements                                                      *)
(***************************************************************************)
\* what one child of a text element contributes to the format call
Contribution(child) ==
    IF child.kind = "Text" THEN "\"" \o CodeString(Trim(child.text)) \o "\""
    ELSE CodeString(child.text)

\* the format call: one placeholder per child, the placeholders joined by sep
FormatCall(children, sep) ==
    "format!(\"" \o JoinLines([i \in 1..Len(children) |-> "{}"], sep) \o "\", "
        \o JoinLines([i \in 1..Len(children) |-> Contribution(children[i])], ", ") \o ")"

IsTextElement(node) == node.kind = "Element" /\ node.tag_name = Str_text

\* C11: for a text element the generated code is the one-argument constructor on one
\* format call: a quoted trimmed literal per Text child, the raw text per Expression
\* child, one placeholder per argument, the placeholders joined by a single space;
\* the attributes are chained afterwards and no .child(...) call is added.
C11_TextFormatCall ==
    (pc = "generated" /\ IsTextElement(dom.node)) =>
        CodeString(rust_code.code) =
            "Box::new("
                \o Chained("hyprui::Text::new(" \o FormatCall(dom.node.children, " ") \o ")",
                           dom.node.attributes)
                \o ")"

\* The same with two spaces between placeholders: what " {} ".repeat(n).trim() gives.
C11_TwoSpaceTemplate ==
    (pc = "generated" /\ IsTextElement(dom.node)) =>
        CodeString(rust_code.code) =
            "Box::new("
                \o Chained("hyprui::Text::new(" \o FormatCall(dom.node.children, "  ") \o ")",
                           dom.node.attributes)
                \o ")"

(***************************************************************************)
(* C12: whitespace-only text children                                      *)
(***************************************************************************)
RECURSIVE Stripped(_)
\* the tree without the empty and whitespace-only Text children of its primitives,
\* components and text elements (a clickable keeps its children: it takes the first)
Stripped(node) ==
    IF node.kind # "Element" THEN node
    ELSE LET kept == IF node.tag_name = Str_clickable THEN node.children
                     ELSE NonBlank(node.children)
         IN [node EXCEPT !.children = [i \in 1..Len(kept) |-> Stripped(kept[i])]]

RECURSIVE HasBlankInText(_)
\* some text element of the tree has an empty or whitespace-only Text child
HasBlankInText(node) ==
    \/ IsTextElement(node) /\ NonBlank(node.children) # node.children
    \/ \E i \in 1..Len(node.children) : HasBlankInText(node.children[i])

C12_BlankTextSkippedOutsideText ==
    (pc = "generated" /\ ~HasBlankInText(dom.node)) =>
        rust_code = Generate(Stripped(dom.node))

(***************************************************************************)
(* C13: text between tags                                                  *)
(***************************************************************************)
\* the printed tree is a text element around one run of text
IsTextRun(tree) ==
    /\ IsTextElement(tree) /\ ~tree.self_closing
    /\ Len(tree.children) = 1 /\ tree.children[1].kind = "Text"

\* the constructor arguments that hand the run over as one string: the literal of
\* the documented example, or a format call with that literal as its one argument
RunArguments(text) ==
    {"\"" \o CodeString(text) \o "\"",
     "format!(\"{}\", \"" \o CodeString(text) \o "\")"}

\* C13: text written between the tags of a text element reaches the generated Text
\* constructor as the same text, all of the run in one string, as in the documented
\* <text font_size={18}>Hello World!</text> giving
\* hyprui::Text::new("Hello World!").font_size(18).
C13_TextRunKept ==
    (GenerateReturned /\ IsPrintedInput /\ IsTextRun(printed_from)) =>
        /\ pc = "generated"
        /\ CodeString(rust_code.code) \in
               {"Box::new("
                    \o Chained("hyprui::Text::new(" \o arg \o ")", printed_from.attributes)
                    \o ")" : arg \in RunArguments(printed_from.children[1].text)}

\* The same for the runs that are one identifier.
C13_SingleWordRunKept ==
    (GenerateReturned /\ IsPrintedInput /\ IsTextRun(printed_from)
        /\ ~HasTextRunOfWords(printed_from) /\ printed_from # DocumentedText) =>
        /\ pc = "generated"
        /\ CodeString(rust_code.code) \in
               {"Box::new("
                    \o Chained("hyprui::Text::new(" \o arg \o ")", printed_from.attributes)
                    \o ")" : arg \in RunArguments(printed_from.children[1].text)}

(***************************************************************************)
(* C14: string literals                                                    *)
(***************************************************************************)
RECURSIVE QuotedScan(_, _, _, _)
\* Reads the characters after an opening quote from index i on; a backslash takes
\* the next character with it.  Gives the index of the closing quote, 0 if none.
QuotedScan(text, i, quote, esc) ==
    IF i > Len(text) THEN 0
    ELSE IF esc THEN QuotedScan(text, i + 1, quote, FALSE)
    ELSE IF text[i] = "\\" THEN QuotedScan(text, i + 1, quote, TRUE)
    ELSE IF text[i] = quote THEN i
    ELSE QuotedScan(text, i + 1, quote, FALSE)

\* the input is one quoted string: its closing quote is its last character
IsQuotedInput ==
    /\ Len(input) >= 2 /\ input[1] \in Quotes
    /\ QuotedScan(input, 2, input[1], FALSE) = Len(input)

QuotedText == SubSeq(input, 2, Len(input) - 1)

\* C14: tokenizing a quoted string gives one StringLiteral whose value is the
\* characters between the delimiters, every backslash escape kept verbatim, and an
\* escaped quote does not end the literal.
C14_StringLiteralVerbatim ==
    (pc = "tokenizing" /\ IsQuotedInput /\ Len(tokens) >= 2)
        => (tokens[1] = StringLiteral(QuotedText) /\ tokens[2] = Eof)

C14_Witness ==
    /\ pc = "tokenizing"
    /\ input = <<"\"", "a", "\\", "\"", "a", "\"">>
    /\ tokens = <<StringLiteral(<<"a", "\\", "\"", "a">>), Eof>>

(***************************************************************************)
(* C15: unterminated string literals and expressions                       *)
(***************************************************************************)
\* the text opens a string literal or a brace expression that never ends
IsOpenLiteral(text) ==
    /\ text # <<>>
    /\ \/ text[1] \in Quotes /\ QuotedScan(text, 2, text[1], FALSE) = 0
       \/ text[1] = "{" /\ BraceScan(Tail(text), 1, None, FALSE, 0).nonneg

\* the token holding every character after the opening one
OpenLiteralToken(text) ==
    IF text[1] \in Quotes THEN StringLiteral(Tail(text)) ELSE Expression(Tail(text))

\* C15: the tokenizer never fails: on an input whose string literal or brace
\* expression is never terminated, next_token returns a StringLiteral or Expression
\* holding every remaining character, and every later call returns Eof.
C15_UnterminatedAbsorbed ==
    pc = "tokenizing" =>
        /\ (IsOpenLiteral(input) /\ tokens # <<>>) =>
               /\ tokens[1] = OpenLiteralToken(input)
               /\ \A i \in 2..Len(tokens) : tokens[i] = Eof
        /\ (input # <<>> /\ input[1] \in {">", "="} /\ IsOpenLiteral(Tail(input))
                /\ Len(tokens) >= 2) =>
               /\ tokens[2] = OpenLiteralToken(Tail(input))
               /\ \A i \in 3..Len(tokens) : tokens[i] = Eof

C15_Witness ==
    /\ pc = "tokenizing"
    /\ input = <<"=", "\"", "a">>
    /\ tokens = <<Equals, StringLiteral(<<"a">>), Eof, Eof>>

(***************************************************************************)
(* C16: Eof is final                                                       *)
(***************************************************************************)
\* C16: once next_token has returned Eof, every later call returns Eof and leaves
\* the tokenizer's position unchanged; no call ever returns a Whitespace token.
C16_EofIsFinal ==
    [][/\ (tokens # <<>> /\ tokens[Len(tokens)] = Eof) =>
              (tokens'[Len(tokens')] = Eof /\ position' = position)
       /\ \A i \in 1..Len(tokens') : tokens'[i].type # "Whitespace"]_vars

C16_Witness ==
    /\ pc = "tokenizing"
    /\ input = <<"a", " ">>
    /\ tokens = <<Identifier(<<"a">>), Eof, Eof>>
    /\ position = 2

(***************************************************************************)
(* C17: tag punctuation and skipped characters                             *)
(***************************************************************************)
\* token i of the text, Eof once the text is used up
NthToken(text, i) ==
    LET all == TokenList(text, 0) IN IF i <= Len(all) THEN all[i].token ELSE Eof

\* the tokens returned from call k on are the tokens of the text
RestTokenized(k, text) == \A i \in k..Len(tokens) : tokens[i] = NthToken(text, i - k + 1)

StartsWith(text, c1, c2) == Len(text) >= 2 /\ text[1] = c1 /\ text[2] = c2

\* a character that starts no token: a digit, a stray closing brace, other
\* punctuation, or a / that no > follows
StartsNoToken(text) ==
    /\ text # <<>>
    /\ \/ text[1] \in Digits \cup {"}", "-", "\\"}
       \/ text[1] = "/" /\ ~StartsWith(text, "/", ">")

\* C17: at a token start </ gives EndOpenTag and consumes both characters, any other
\* < gives OpenTag, /> gives SelfCloseTag; a character that starts no token is
\* skipped alone, gives no token and does not stop tokenization of the rest.
C17_TagPunctuation ==
    (pc = "tokenizing" /\ tokens # <<>>) =>
        /\ StartsWith(input, "<", "/") =>
               (tokens[1] = EndOpenTag /\ RestTokenized(2, SubSeq(input, 3, Len(input))))
        /\ (input # <<>> /\ input[1] = "<" /\ ~StartsWith(input, "<", "/")) =>
               (tokens[1] = OpenTag /\ RestTokenized(2, Tail(input)))
        /\ StartsWith(input, "/", ">") =>
               (tokens[1] = SelfCloseTag /\ RestTokenized(2, SubSeq(input, 3, Len(input))))
        /\ StartsNoToken(input) => RestTokenized(1, Tail(input))

C17_Witness ==
    /\ pc = "tokenizing"
    /\ input = <<"/", "<", "/">>
    /\ tokens = <<EndOpenTag, Eof>>

(***************************************************************************)
(* C18: end of input among the children                                    *)
(***************************************************************************)
\* the opening tag of a printed element
PrintOpenTag(node) ==
    <<"<">> \o node.tag_name \o PrintAttributes(node.attributes) \o <<">">>

RECURSIVE OpenPrefixes(_)
\* the printed tree cut where a child of one of its elements may start: after the
\* opening tag or after a child, in the element itself or in a nested one; each cut
\* with the tag of the innermost element left open
OpenPrefixes(node) ==
    IF node.kind # "Element" \/ node.self_closing THEN {}
    ELSE LET head == PrintOpenTag(node)
             before(k) == PrintChildren(SubSeq(node.children, 1, k - 1))
                              \o (IF k > 1 THEN <<" ">> ELSE <<>>)
         IN {[text |-> head \o PrintChildren(SubSeq(node.children, 1, k)),
              tag |-> node.tag_name] : k \in 0..Len(node.children)}
            \cup UNION {{[text |-> head \o before(k) \o r.text, tag |-> r.tag] :
                            r \in OpenPrefixes(node.children[k])} :
                        k \in 1..Len(node.children)}

\* the input is the printed tree cut short
IsCutShort ==
    /\ Len(input) < Len(PrintNode(printed_from))
    /\ input = SubSeq(PrintNode(printed_from), 1, Len(input))

\* C18: when the end of the input is met while the children of a non-self-closing
\* element, at any depth, are parsed, parse returns Err naming that element's tag
\* and no tree; no printed element cut short parses.
C18_EofAmongChildren ==
    ParseReturned =>
        /\ \A r \in OpenPrefixes(printed_from) :
               input = r.text =>
                   /\ pc = "error" /\ ~dom.ok /\ dom.node = NoNode
                   /\ dom.err = <<"Unexpected EOF while parsing <">> \o r.tag \o <<">">>
        /\ (IsCutShort /\ ~printed_from.self_closing) =>
               (pc = "error" /\ ~dom.ok /\ dom.node = NoNode)

C18_Witness ==
    /\ pc = "error"
    /\ input = <<"<", "x", ">", "<", "M", ">", "a">>
    /\ dom.err = <<"Unexpected EOF while parsing <", "M", ">">>

(***************************************************************************)
(* C19: attribute values                                                   *)
(***************************************************************************)
\* token i of a token list, Eof past its end
TokenAt(toks, i) == IF i <= Len(toks) THEN toks[i].token ELSE Eof

RECURSIVE AttributeScan(_, _, _)
\* Reads an attribute list from token i on: names, each alone or followed by = and
\* a StringLiteral or an Expression.  Gives the attributes read, and whether an =
\* was followed by another kind of token.
AttributeScan(toks, i, attributes) ==
    IF TokenAt(toks, i).type # "Identifier"
    THEN [malformed |-> FALSE, attributes |-> attributes]
    ELSE IF TokenAt(toks, i + 1) # Equals
         THEN AttributeScan(toks, i + 1,
                  Append(attributes, Attribute(TokenAt(toks, i).text, ValueNone)))
    ELSE IF TokenAt(toks, i + 2).type = "StringLiteral"
         THEN AttributeScan(toks, i + 3,
                  Append(attributes, Attribute(TokenAt(toks, i).text,
                                               ValueString(TokenAt(toks, i + 2).text))))
    ELSE IF TokenAt(toks, i + 2).type = "Expression"
         THEN AttributeScan(toks, i + 3,
                  Append(attributes, Attribute(TokenAt(toks, i).text,
                                               ValueExpression(TokenAt(toks, i + 2).text))))
    ELSE [malformed |-> TRUE, attributes |-> <<>>]

\* the attribute list of the root element: the tokens after < and the tag name
RootAttributeScan ==
    AttributeScan(TokenList(input, 0), 3, <<>>)

IsRootOpened ==
    /\ TokenAt(TokenList(input, 0), 1) = OpenTag
    /\ TokenAt(TokenList(input, 0), 2).type = "Identifier"

\* C19: in an attribute list an = whose next token is neither a StringLiteral nor an
\* Expression makes parse return Err, and no Attribute gets a value from any other
\* kind of token: the attributes of a parsed element are those of its tokens.
C19_AttributeValues ==
    /\ (ParseReturned /\ IsRootOpened /\ RootAttributeScan.malformed) =>
           /\ pc = "error" /\ ~dom.ok /\ dom.node = NoNode
           /\ dom.err = <<"Expected string literal or expression after =">>
    /\ Parsed =>
           (~RootAttributeScan.malformed /\ dom.node.attributes = RootAttributeScan.attributes)

C19_Witness ==
    /\ pc = "error"
    /\ input = <<"<", "x", " ", "p", "=", "/", ">", ">", "<", "/", "x", ">">>
    /\ dom.err = <<"Expected string literal or expression after =">>

(***************************************************************************)
(* C20: text after the root element                                        *)
(***************************************************************************)
\* the input is the printed tree followed by a suffix
IsSuffixed ==
    /\ Len(input) >= Len(PrintNode(printed_from))
    /\ SubSeq(input, 1, Len(PrintNode(printed_from))) = PrintNode(printed_from)

\* what parse returns on the printed tree alone
ParsedAlone == Parse(PrintNode(printed_from), ParserNew(PrintNode(printed_from)))

\* C20: parse parses one root element and ignores the rest: when parse succeeds on
\* a text X ending with its root element, with tree T, parse on X followed by any
\* suffix returns Ok(T) as well.
C20_SuffixIgnored ==
    (ParseReturned /\ IsSuffixed /\ ParsedAlone.ok) =>
        (pc # "error" /\ dom.ok /\ dom.node = ParsedAlone.node /\ dom.err = <<>>)

C20_Witness ==
    /\ pc = "parsed"
    /\ input = <<"<", "x", ">", "a", "<", "/", "x", ">", "<", "/">>
    /\ dom.node = NodeElement(<<"x">>, <<>>, <<NodeText(<<"a">>)>>, FALSE)

(***************************************************************************)
(* C21: all or nothing                                                     *)
(***************************************************************************)
\* the index in a token list of the > that ends the root's opening tag, 0 if the
\* tokens do not start with a well-formed opening tag
RECURSIVE OpeningTagEnd(_, _)
OpeningTagEnd(toks, i) ==
    IF TokenAt(toks, i) = CloseTag THEN i
    ELSE IF TokenAt(toks, i).type # "Identifier" THEN 0
    ELSE IF TokenAt(toks, i + 1) # Equals THEN OpeningTagEnd(toks, i + 1)
    ELSE IF TokenAt(toks, i + 2).type \in {"StringLiteral", "Expression"}
         THEN OpeningTagEnd(toks, i + 3)
    ELSE 0

\* the root's first child is an element: the token after the opening tag is <
HasNestedFirst ==
    /\ IsRootOpened
    /\ OpeningTagEnd(TokenList(input, 0), 3) # 0
    /\ TokenAt(TokenList(input, 0), OpeningTagEnd(TokenList(input, 0), 3) + 1) = OpenTag

\* the input from the < of that nested element on
NestedText ==
    SubSeq(input, TokenList(input, 0)[OpeningTagEnd(TokenList(input, 0), 3) + 1].end,
           Len(input))

\* what parsing the nested element returns
NestedParse == Parse(NestedText, ParserNew(NestedText))

\* C21: compilation is all or nothing: a failure in a nested element fails the whole
\* parse at once with that element's error, the generator never runs on a partial
\* tree, and a failure of parser or generator ends in an error outcome, never in
\* generated code.
C21_AllOrNothing ==
    /\ (ParseReturned /\ HasNestedFirst /\ ~NestedParse.ok) =>
           (pc = "error" /\ dom.err = NestedParse.err)
    /\ pc = "error" =>
           (~dom.ok /\ dom.node = NoNode /\ dom.err # <<>> /\ rust_code = NoCode)
    /\ GenerateReturned => dom.ok
    /\ pc = "panicked" => (rust_code.panic /\ rust_code.code = <<>>)
    /\ pc = "generated" => (~rust_code.panic /\ rust_code.code # <<>>)

C21_Witness ==
    /\ pc = "error"
    /\ input = <<"<", "x", ">", "<", "M", ">", "a", "<", "/", "x", ">", "<", "/", "x", ">">>
    /\ dom.err = <<"Mismatched closing tag: expected </", "M", ">, found </", "x", ">">>

(***************************************************************************)
(* C30: termination                                                        *)
(***************************************************************************)
\* from every position of the input next_token consumes a character or returns Eof,
\* and ends within the input
TokenProgress ==
    \A p \in 0..Len(input) :
        /\ NextToken(input, p).position <= Len(input)
        /\ NextToken(input, p).position > p \/ NextToken(input, p).token = Eof

\* what Parser::new and parse give on the whole input
ParsedWhole == Parse(input, ParserNew(input))

\* C30: parse returns on every input, with Ok(tree) or with Err(message), having read
\* no further than the end of the input: from every position next_token consumes at
\* least one character or returns Eof, and the position never exceeds the length
\* of the input.
C30_ParseTerminates ==
    /\ TokenProgress
    /\ position <= Len(input)
    /\ ParsedWhole.P.position <= Len(input)
    /\ \/ ParsedWhole.ok /\ ParsedWhole.node # NoNode /\ ParsedWhole.err = <<>>
       \/ ~ParsedWhole.ok /\ ParsedWhole.node = NoNode /\ ParsedWhole.err # <<>>
    /\ ParseReturned =>
           /\ dom.ok = ParsedWhole.ok
           /\ dom.node = ParsedWhole.node
           /\ dom.err = ParsedWhole.err

C30_Witness ==
    /\ pc = "parsed"
    /\ input = <<"<", "x", ">", ">", "<", "/", "x", ">">>
    /\ dom.node = NodeElement(<<"x">>, <<>>, <<>>, FALSE)
    /\ position = Len(input)

(***************************************************************************)
(* C22: use_state across frames                                            *)
(***************************************************************************)
\* the last hook call of the frame
LastCall(h) == h.frame_calls[Len(h.frame_calls)]

\* what the claim has use_state return at the key: the value last given to the setter
\* or the first initial, and the call's own initial at the first call
Persisted(h, key, initial) == IF key \in DOMAIN h.latest THEN h.latest[key] ELSE initial

HoldsRef(h, key) == key \in DOMAIN h.HOOK_STATES /\ h.HOOK_STATES[key].type = "ref"

Found(h, key, boxed) == IF key \in DOMAIN h.HOOK_STATES THEN h.HOOK_STATES[key] ELSE boxed

\* C23: a setter call stores its value at the key of the use_state call that gave the
\* setter and changes nothing else: every other key holds what it held, and nothing
\* the collection at the end of the frame depends on changes.
C23_SetterIsolated ==
    [][\A key \in hooks.setters, new_value \in SetterValues :
           (~hooks.panicked /\ hooks' = Setter(hooks, key, new_value)) =>
               /\ hooks'.HOOK_STATES[key] = StateBox(new_value)
               /\ DOMAIN hooks'.HOOK_STATES = DOMAIN hooks.HOOK_STATES \cup {key}
               /\ \A other \in DOMAIN hooks.HOOK_STATES \ {key} :
                      hooks'.HOOK_STATES[other] = hooks.HOOK_STATES[other]
               /\ \A other \in (hooks.setters \cup DOMAIN hooks.HOOK_STATES) \ {key},
                     initial \in StateValues :
                      Found(hooks', other, StateBox(initial))
                          = Found(hooks, other, StateBox(initial))
               /\ hooks'.HOOK_VISITED_STATES = hooks.HOOK_VISITED_STATES
               /\ hooks'.HOOK_PATH = hooks.HOOK_PATH
               /\ hooks'.HOOK_INDEX = hooks.HOOK_INDEX]_vars

\* two hooks of one component returned 10; the setter of the second was called since
C23_Witness ==
    /\ Len(hooks.frame_calls) = 2
    /\ hooks.frame_calls[1].hook = "use_state" /\ hooks.frame_calls[1].value = <<10>>
    /\ hooks.frame_calls[2].hook = "use_state" /\ hooks.frame_calls[2].value = <<10>>
    /\ hooks.frame_calls[1].key.path = hooks.frame_calls[2].key.path
    /\ hooks.HOOK_STATES[hooks.frame_calls[1].key] = StateBox(10)
    /\ hooks.HOOK_STATES[hooks.frame_calls[2].key] = StateBox(42)

(***************************************************************************)
(* C24: the collection at the end of the outermost component               *)
(***************************************************************************)
\* the keys the frame's hook calls used
CalledKeys(h) == {h.frame_calls[i].key : i \in 1..Len(h.frame_calls)}

\* C24: the end_component that empties the path removes every state whose key no hook
\* call of the frame used, keeps the others with their values and empties the
\* visited set; an end_component that leaves the path non-empty removes nothing.
C24_CollectsAtOutermostEnd ==
    [][EndComponentCall =>
           IF Len(hooks.HOOK_PATH) = 1
           THEN /\ hooks'.HOOK_PATH = <<>>
                /\ DOMAIN hooks'.HOOK_STATES = DOMAIN hooks.HOOK_STATES \cap CalledKeys(hooks)
                /\ \A key \in DOMAIN hooks'.HOOK_STATES :
                       hooks'.HOOK_STATES[key] = hooks.HOOK_STATES[key]
                /\ hooks'.HOOK_VISITED_STATES = {}
           ELSE /\ hooks'.HOOK_PATH # <<>>
                /\ hooks'.HOOK_STATES = hooks.HOOK_STATES
                /\ hooks'.HOOK_VISITED_STATES = hooks.HOOK_VISITED_STATES]_vars

\* the outermost component has ended: a state was removed and another kept
C24_Witness ==
    /\ hooks.HOOK_PATH = <<>>
    /\ hooks.dropped # {}
    /\ DOMAIN hooks.HOOK_STATES # {}
    /\ hooks.HOOK_VISITED_STATES = {}

(***************************************************************************)
(* C25: the keys of one frame                                              *)
(***************************************************************************)
\* C25: the hook calls of one frame are given pairwise distinct keys.
C25_DistinctKeys ==
    \A i, j \in 1..Len(hooks.frame_calls) :
        i # j => hooks.frame_calls[i].key # hooks.frame_calls[j].key

\* the first hooks of two sibling components: the keys differ in the parent's count
C25_Witness ==
    /\ Len(hooks.frame_calls) = 2
    /\ hooks.frame_calls[1].key = HookKey(<<<<1, "component-1">>, <<0, "component-1">>>>, 0)
    /\ hooks.frame_calls[2].key = HookKey(<<<<2, "component-1">>, <<0, "component-1">>>>, 0)

(***************************************************************************)
(* C26: just-pressed and just-released across frames                       *)
(***************************************************************************)
\* a press of the button was delivered since the last frame
PressDelivered(m, button) ==
    \E i \in 1..Len(m.events) : m.events[i] = [button |-> button, pressed |-> TRUE]

\* C26: the frame that follows a press of a button reads just-pressed as true for it,
\* and a frame with no press of the button since the frame before reads false; a
\* frame with no event at all since the frame before reads false from the four
\* just-pressed and just-released queries, for every button and key.
C26_JustPressedOneFrame ==
    /\ \A button \in Buttons :
           IsMouseButtonJustPressed(input_manager, button)
               <=> PressDelivered(input_manager, button)
    /\ (input_manager.events = <<>> /\ input_manager.key_events = 0) =>
           /\ \A button \in Buttons :
                  /\ ~IsMouseButtonJustPressed(input_manager, button)
                  /\ ~IsMouseButtonJustReleased(input_manager, button)
           /\ \A key \in Keys :
                  /\ ~IsKeyJustPressed(input_manager, key)
                  /\ ~IsKeyJustReleased(input_manager, key)

(***************************************************************************)
(* C27: focus traversal                                                    *)
(***************************************************************************)
\* nothing is focused, or a registered node is
CurrentRegistered(f) == f.current = None \/ f.current \in DOMAIN f.focus_nodes

\* the place of the id in the insertion order
PlaceOf(f, id) == CHOOSE i \in 1..Len(f.inserted) : f.inserted[i] = id

\* the node k places after the place, wrapping from the last node to the first
NodeAfter(f, place, k) == f.inserted[((place + k - 1) % Len(f.inserted)) + 1]

\* the node k places before the place, wrapping from the first node to the last
NodeBefore(f, place, k) ==
    f.inserted[((place - k - 1 + Len(f.inserted)) % Len(f.inserted)) + 1]

\* the least k of the set
Least(ks) == CHOOSE k \in ks : \A other \in ks : k <= other

\* the first non-skip node after the current one, None when every node is skipped
NextNonSkip(f) ==
    LET place == IF f.current = None THEN 0 ELSE PlaceOf(f, f.current)
        ks == {k \in 1..Len(f.inserted) : ~f.focus_nodes[NodeAfter(f, place, k)].skip}
    IN IF ks = {} THEN None ELSE NodeAfter(f, place, Least(ks))

\* the first non-skip node before the current one, None when every node is skipped
PrevNonSkip(f) ==
    LET place == IF f.current = None THEN Len(f.inserted) + 1 ELSE PlaceOf(f, f.current)
        ks == {k \in 1..Len(f.inserted) : ~f.focus_nodes[NodeBefore(f, place, k)].skip}
    IN IF ks = {} THEN None ELSE NodeBefore(f, place, Least(ks))

\* C27: with nothing or a registered node focused, focus_next focuses the first
\* non-skip node after the current one in insertion order, from the first node when
\* nothing is focused and wrapping from the last node to the first; focus_prev does
\* the same in reverse; current becomes None only when no node is non-skip.
C27_TraversalWraps ==
    [][/\ (FocusNextCall /\ CurrentRegistered(focus_manager)) =>
              focus_manager'.current = NextNonSkip(focus_manager)
       /\ (FocusPrevCall /\ CurrentRegistered(focus_manager)) =>
              focus_manager'.current = PrevNonSkip(focus_manager)]_vars

(***************************************************************************)
(* C28: the lookups by the current id                                      *)
(***************************************************************************)
\* C28: whenever the callback is about to run focus_next, focus_prev or new_frame,
\* current is None or a registered id, and no lookup by the current id panics.
C28_CurrentIsRegistered ==
    /\ ~focus_manager.panicked
    /\ focus_manager.at \in {"rooted", "traversed", "blurred"} =>
           CurrentRegistered(focus_manager)

(***************************************************************************)
(* C29: the list of focus nodes                                            *)
(***************************************************************************)
\* the ids met following next from the id, at most fuel of them
RECURSIVE WalkNext(_, _, _)
WalkNext(f, id, fuel) ==
    IF id = None \/ id \notin DOMAIN f.focus_nodes \/ fuel = 0
    THEN <<>>
    ELSE <<id>> \o WalkNext(f, f.focus_nodes[id].next, fuel - 1)

LinkedInOrder(f) ==
    /\ f.first = None <=> DOMAIN f.focus_nodes = {}
    /\ f.last = None <=> DOMAIN f.focus_nodes = {}
    /\ WalkNext(f, f.first, Cardinality(DOMAIN f.focus_nodes) + 1) = f.inserted
    /\ Len(f.inserted) = Cardinality(DOMAIN f.focus_nodes)
    /\ {f.inserted[i] : i \in 1..Len(f.inserted)} = DOMAIN f.focus_nodes
    /\ f.inserted # <<>> =>
           /\ f.inserted[1] = f.first
           /\ f.inserted[Len(f.inserted)] = f.last
           /\ f.focus_nodes[f.first].prev = None
           /\ f.focus_nodes[f.last].next = None
    /\ \A id \in DOMAIN f.focus_nodes :
           /\ f.focus_nodes[id].next # None =>
                  /\ f.focus_nodes[id].next \in DOMAIN f.focus_nodes
                  /\ f.focus_nodes[f.focus_nodes[id].next].prev = id
           /\ f.focus_nodes[id].prev # None =>
                  /\ f.focus_nodes[id].prev \in DOMAIN f.focus_nodes
                  /\ f.focus_nodes[f.focus_nodes[id].prev].next = id

\* C29: the focus nodes form a doubly linked list in insertion order: first and last
\* are None exactly when there is no node, next from first visits every node once
\* in the order of insertion and ends at last, prev is the inverse of next; and
\* add_node with a registered id changes that node's skip flag and nothing else.
C29_LinkedList ==
    /\ []LinkedInOrder(focus_manager)
    /\ [][\A id \in DOMAIN focus_manager.focus_nodes, skip \in BOOLEAN :
              (AddNodeCall /\ focus_manager' = AddNode(focus_manager, id, skip)) =>
                  /\ DOMAIN focus_manager'.focus_nodes = DOMAIN focus_manager.focus_nodes
                  /\ focus_manager'.focus_nodes[id].skip = skip
                  /\ \A other \in DOMAIN focus_manager.focus_nodes :
                         /\ focus_manager'.focus_nodes[other].parent
                                = focus_manager.focus_nodes[other].parent
                         /\ focus_manager'.focus_nodes[other].prev
                                = focus_manager.focus_nodes[other].prev
                         /\ focus_manager'.focus_nodes[other].next
                                = focus_manager.focus_nodes[other].next
                         /\ other # id => focus_manager'.focus_nodes[other].skip
                                              = focus_manager.focus_nodes[other].skip
                  /\ focus_manager'.first = focus_manager.first
                  /\ focus_manager'.last = focus_manager.last
                  /\ focus_manager'.current = focus_manager.current]_vars

\* three nodes in the order u2, u1, u3; u1 is skipped and has a parent
C29_Witness ==
    /\ focus_manager.first = "u2"
    /\ focus_manager.last = "u3"
    /\ focus_manager.focus_nodes["u2"] = FocusNode(ParentUndefined, None, "u1", FALSE)
    /\ focus_manager.focus_nodes["u1"] = FocusNode(ParentOf("u3"), "u2", "u3", TRUE)
    /\ focus_manager.focus_nodes["u3"] = FocusNode(ParentUndefined, "u1", None, FALSE)

====
